---- MODULE Spec2Model ----
(***************************************************************************)
(* The donation transaction of the charity service: SQLStore.DonateToGoalTx *)
(* run through SQLStore.execTx against PostgreSQL at its default isolation  *)
(* level (READ COMMITTED, pgx.TxOptions{}).                                 *)
(*                                                                          *)
(* The committed tables are goals, users and donations.  A transaction      *)
(* keeps its writes private (wUser, wGoal, wDonation) until Commit applies  *)
(* them in one step; Rollback discards them.  An UPDATE takes the row lock  *)
(* of its row and holds it until the transaction ends, so a row is locked   *)
(* exactly while some transaction has a private write for it; an UPDATE of  *)
(* a locked row waits, and then works on the latest committed row.  A plain *)
(* SELECT takes no lock and reads the committed row.  The foreign-key       *)
(* checks of INSERT INTO donations take FOR KEY SHARE locks, which never    *)
(* conflict with the FOR NO KEY UPDATE locks of the two UPDATEs (no key     *)
(* column is written), so they cause no waiting among donations; they do   *)
(* make a DELETE of the referenced goal or user wait or fail, which the     *)
(* deletion actions (SpecDelete) represent.                                 *)
(*                                                                          *)
(* Three further machines share the variables, each with its own            *)
(* specification: the donation handlers with their amount ceilings          *)
(* (SpecLimits), the per-client sliding-window rate limiter (SpecRate),     *)
(* and refresh-token rotation, logout and logout-all (SpecToken).           *)
(* The earlier variant of the transaction (SpecP3), execTx with a failing    *)
(* rollback (SpecExecTx), the goal and user routes (SpecGoals) and the rate  *)
(* limiter with its mutexes, statement by statement (SpecLocks), follow.     *)
(***************************************************************************)
EXTENDS Integers, Sequences, FiniteSets, TLC

\* ---------------------------------------------------------------- bounds
MaxAmount == 2
InitBalance == 2

MaxAnonymousDonation == 1
MaxRegisteredDonation == 2
\* time.Minute, the rate limiter's window, in ticks of the clock
Window == 2
\* the last tick of the clock
MaxTime == 4

\* collected_amount of a goal that has just been created
InitCollected == 0
\* RateLimitPerMinute of the rate limit test
RateLimitPerMinute == 2
\* the age at which cleanupVisitors removes a visitor: ten minutes, ten windows,
\* scaled to the shortest age that is longer than the window
CleanupAge == Window + 1
\* the clients of the server
ClientIPs == {1, 2}

\* ---------------------------------------------------------------- inputs
\* callers of the general specification, and the rows its tables start with
Procs == {1, 2}
GoalIds == {1}
UserIds == {1, 2}
\* ids a caller may pass: the rows that exist and one that does not (999 in the tests)
ArgGoalIds == GoalIds \cup {999}
ArgUserIds == UserIds \cup {999}
Amounts == (0 - 1) .. MaxAmount

\* pgtype.Int8
NullInt8 == [Valid |-> FALSE, Int64 |-> 0]
Int8(n) == [Valid |-> TRUE, Int64 |-> n]
UserArgs == {NullInt8} \cup {Int8(u) : u \in ArgUserIds}

DonateToGoalTxParams ==
    [UserID : UserArgs, GoalID : ArgGoalIds, Amount : Amounts, IsAnonymous : BOOLEAN]

\* callers, rows and calls of the cross pattern of TestStoreDonateToGoalTx: valid
\* donations over two users and two goals, attributed or anonymous
CrossProcs == {1, 2}
CrossGoalIds == {1, 2}
CrossParams ==
    {a \in [UserID : {NullInt8} \cup {Int8(u) : u \in UserIds}, GoalID : CrossGoalIds,
            Amount : {1}, IsAnonymous : BOOLEAN] : ~a.UserID.Valid => a.IsAnonymous}

\* ---------------------------------------------------------------- errors
ErrNil == "nil"
ErrAmount == "donation amount must be positive"
ErrInactive == "cannot donate to inactive goal"
ErrInsufficient == "insufficient balance"
ErrNoRows == "no rows in result set"
ErrStore == "store failure"
ErrForeignKey == "violates foreign key constraint"

\* the status codes of the answers
StatusOK == 200
StatusCreated == 201
StatusNoContent == 204
StatusBadRequest == 400
StatusUnauthorized == 401
StatusNotFound == 404
StatusTooManyRequests == 429
StatusInternalServerError == 500

\* ---------------------------------------------------------------- state
VARIABLES goals, users, donations, nextDonationID, tx, hist, admin,
          now, visitors, admitted, reqs, locks,
          refreshTokens, nextTokenID, sess, banned

\* the store, and the HTTP server in front of it
storeVars == <<goals, users, donations, nextDonationID, tx, hist, admin>>
webVars == <<now, visitors, admitted, reqs, locks>>
authVars == <<refreshTokens, nextTokenID, sess, banned>>
vars == <<storeVars, webVars, authVars>>
committed == <<goals, users, donations>>
\* what the statements of a donation transaction leave alone
aux == <<admin, webVars, authVars>>

EmptyUser == [ID |-> 0, Balance |-> 0]
EmptyGoal == [ID |-> 0, CollectedAmount |-> 0, IsActive |-> FALSE]
EmptyDonation ==
    [ID |-> 0, GoalID |-> 0, UserID |-> NullInt8, Amount |-> 0, IsAnonymous |-> FALSE]
EmptyResult ==
    [Donation |-> EmptyDonation, User |-> EmptyUser, Goal |-> EmptyGoal,
     FromBalance |-> 0, ToBalance |-> 0]
EmptyArg == [UserID |-> NullInt8, GoalID |-> 0, Amount |-> 0, IsAnonymous |-> FALSE]

\* a caller: its position, the locals goal and user of the callback, the writes of
\* its open transaction, and what DonateToGoalTx returns
IdleTx ==
    [pc |-> "idle", arg |-> EmptyArg, opened |-> FALSE, ended |-> "none",
     goal |-> EmptyGoal, userBalance |-> 0,
     wUser |-> {}, wGoal |-> {}, wDonation |-> {},
     result |-> EmptyResult, err |-> ErrNil]

\* updateGoalRequest with nothing in it: every pointer field is nil
NoBody ==
    [Title |-> [Valid |-> FALSE, String |-> ""],
     Description |-> [Valid |-> FALSE, String |-> ""],
     TargetAmount |-> NullInt8,
     IsActive |-> [Valid |-> FALSE, Bool |-> FALSE]]

\* the last request or statement outside the donation transactions, with its
\* body, its answer and its outcome
NoAdmin == [op |-> "none", id |-> 0, body |-> NoBody, status |-> 0, err |-> ErrNil]

\* history of a call, kept for the properties only: the donor balance and the goal
\* total when it was made, whether the goal was ever active since, whether a step of
\* the call changed a table, whether another donation on its rows committed meanwhile
IdleHist ==
    [balance0 |-> 0, collected0 |-> 0, sawActive |-> FALSE, wrote |-> FALSE,
     overlap |-> FALSE]

\* ---------------------------------------------------------------- queries
\* -- name: UpdateUserBalance :one   SET balance = balance + $2
UpdateUserBalanceSQL(balance, arg2) == balance + arg2

\* mutant: the query overwrites the column (SET collected_amount = $2)
UpdateGoalCollectedAmountSet(collected, arg2) == arg2

\* -- name: UpdateGoalCollectedAmount :exec   SET collected_amount = collected_amount + $2
UpdateGoalCollectedAmountSQL(collected, arg2) == collected + arg2

\* mutant: the caller hands the query the change of the balance, not the new balance
NewBalanceDelta(userBalance, amount) == 0 - amount

\* newBalance := user.Balance - arg.Amount, the value handed to UpdateUserBalance
NewBalance(userBalance, amount) == userBalance - amount

\* mutant: the caller adds the amount to the total it read (goal.CollectedAmount + arg.Amount)
GoalDeltaFromRead(goalCollected, amount) == goalCollected + amount

\* CollectedAmount: arg.Amount, the value handed to UpdateGoalCollectedAmount
GoalDelta(goalCollected, amount) == amount

\* mutant: the amount is not validated
InvalidAmountUnchecked(amount) == FALSE

\* if arg.Amount <= 0
InvalidAmount(amount) == amount <= 0

\* mutant: the balance check is missing
InsufficientUnchecked(userBalance, amount) == FALSE

\* if user.Balance < arg.Amount
Insufficient(userBalance, amount) == userBalance < amount

\* mutant: the activity check is missing
GoalClosedUnchecked(isActive) == FALSE

\* if !goal.IsActive
GoalClosed(isActive) == ~isActive

\* row locks: held by the transaction that has an uncommitted UPDATE of the row
UserLockedBy(u) == {q \in DOMAIN tx : tx[q].wUser /= {} /\ tx[q].arg.UserID.Int64 = u}
GoalLockedBy(g) == {q \in DOMAIN tx : tx[q].wGoal /= {} /\ tx[q].arg.GoalID = g}

InTx(p) == tx[p].pc \notin {"idle", "done"}

\* mutant: a donation of a user that is flagged anonymous updates the goal before
\* the user
SuccGoalFirst(pc, arg) ==
    IF arg.UserID.Valid /\ arg.IsAnonymous
    THEN CASE pc = "getGoal" -> "getUser"
           [] pc = "getUser" -> "updateGoalCollectedAmount"
           [] pc = "updateGoalCollectedAmount" -> "updateUserBalance"
           [] pc = "updateUserBalance" -> "createDonation"
           [] pc = "createDonation" -> "getUpdatedGoal"
           [] pc = "getUpdatedGoal" -> "commit"
    ELSE CASE pc = "getGoal" -> IF arg.UserID.Valid THEN "getUser" ELSE "createDonation"
           [] pc = "getUser" -> "updateUserBalance"
           [] pc = "updateUserBalance" -> "createDonation"
           [] pc = "createDonation" -> "updateGoalCollectedAmount"
           [] pc = "updateGoalCollectedAmount" -> "getUpdatedGoal"
           [] pc = "getUpdatedGoal" -> "commit"

\* the statement that follows each statement of the callback
Succ(pc, arg) ==
    CASE pc = "getGoal" -> IF arg.UserID.Valid THEN "getUser" ELSE "createDonation"
      [] pc = "getUser" -> "updateUserBalance"
      [] pc = "updateUserBalance" -> "createDonation"
      [] pc = "createDonation" -> "updateGoalCollectedAmount"
      [] pc = "updateGoalCollectedAmount" -> "getUpdatedGoal"
      [] pc = "getUpdatedGoal" -> "commit"

\* history: a step of p's call changed a committed table
Track(p) ==
    hist' = [hist EXCEPT ![p].wrote = @ \/ (committed' /= committed)]

\* ---------------------------------------------------------------- Init
\* the refresh tokens of the logins before: user 1 is logged in on two devices
InitTokens == {1, 2}
InitTokenUser(t) == 1

\* a request of the refresh token routes that has not arrived; late and
\* issuedBefore are history, kept for the properties: whether the token it
\* presents was logged out before it was sent, and the tokens its user held then
NewSession ==
    [pc |-> "new", route |-> "", token |-> 0, userID |-> 0, dbUserID |-> 0,
     newToken |-> 0, status |-> 0, late |-> FALSE, issuedBefore |-> {}]

\* the refresh_tokens table after the logins, and the requests S to come; banned is
\* history: the tokens a successful logout or logout-all was to revoke
InitAuth(S) ==
    /\ refreshTokens = [t \in InitTokens |->
                          [UserID |-> InitTokenUser(t), Revoked |-> FALSE,
                           Expired |-> FALSE]]
    /\ nextTokenID = 3
    /\ sess = [s \in S |-> NewSession]
    /\ banned = {}

\* a request that has not arrived
NewRequest ==
    [pc |-> "new", route |-> "", ip |-> 0, authed |-> FALSE, userID |-> 0,
     goalID |-> 0, amount |-> 0, isAnonymous |-> FALSE,
     allow |-> FALSE, status |-> 0, calls |-> <<>>, arg |-> EmptyArg]

\* the holders of the mutexes of the rate limiter, and the cleanup goroutine
Free == 0
Cleaner == 100

\* NewRateLimiter: rl.mutex and the visitors' mutexes are unlocked, the cleanup
\* goroutine waits for its ticker; todo, ip and stale are the locals of its loop
NoLocks ==
    [mutex |-> Free,
     visitor |-> [ip \in ClientIPs |-> [writer |-> Free, readers |-> {}]],
     cleanup |-> [pc |-> "ticker", cutoff |-> 0, todo |-> {}, ip |-> 0, stale |-> FALSE]]

\* NewServer: the clock, the rate limiter's empty map, and the requests R to come
InitWeb(R) ==
    /\ now = 0
    /\ visitors = <<>>
    /\ admitted = [ip \in ClientIPs |-> <<>>]
    /\ reqs = [r \in R |-> NewRequest]
    /\ locks = NoLocks

\* the balance a user starts with: user 1 can afford every amount, user 2 cannot
InitBalanceOf(u) == IF u = 1 THEN InitBalance ELSE InitBalance - 1

InitTables(G) ==
    /\ goals = [g \in G |-> [CollectedAmount |-> InitCollected, IsActive |-> TRUE]]
    /\ users = [u \in UserIds |-> [Balance |-> InitBalanceOf(u)]]
    /\ donations = {}
    /\ nextDonationID = 1

Init ==
    /\ InitTables(GoalIds)
    /\ tx = [p \in Procs |-> IdleTx]
    /\ hist = [p \in Procs |-> IdleHist]
    /\ admin = NoAdmin
    /\ InitWeb({})
    /\ InitAuth({})

\* ---------------------------------------------------------------- actions
\* a caller invokes store.DonateToGoalTx(ctx, arg)
Call(p, Params) ==
    /\ tx[p].pc = "idle"
    /\ \E arg \in Params :
          /\ tx' = [tx EXCEPT ![p] = [IdleTx EXCEPT !.pc = "begin", !.arg = arg]]
          /\ hist' = [hist EXCEPT ![p] =
                [balance0 |-> IF arg.UserID.Int64 \in DOMAIN users
                              THEN users[arg.UserID.Int64].Balance ELSE 0,
                 collected0 |-> IF arg.GoalID \in DOMAIN goals
                                THEN goals[arg.GoalID].CollectedAmount ELSE 0,
                 sawActive |-> arg.GoalID \in DOMAIN goals /\ goals[arg.GoalID].IsActive,
                 wrote |-> FALSE, overlap |-> FALSE]]
    /\ UNCHANGED <<goals, users, donations, nextDonationID>>
    /\ UNCHANGED aux

\* execTx: BeginTx succeeded, the callback starts and validates the amount
Begin(p) ==
    /\ tx[p].pc = "begin"
    /\ tx' = [tx EXCEPT ![p].opened = TRUE,
                        ![p].pc = IF InvalidAmount(tx[p].arg.Amount)
                                  THEN "rollback" ELSE "getGoal",
                        ![p].err = IF InvalidAmount(tx[p].arg.Amount)
                                   THEN ErrAmount ELSE ErrNil]
    /\ UNCHANGED <<goals, users, donations, nextDonationID>>
    /\ Track(p)
    /\ UNCHANGED aux

\* goal, err := q.GetGoal(ctx, arg.GoalID); the activity check
GetGoal(p) ==
    /\ tx[p].pc = "getGoal"
    /\ LET g == tx[p].arg.GoalID IN
       tx' = [tx EXCEPT
                ![p].goal = IF g \in DOMAIN goals
                            THEN [ID |-> g, CollectedAmount |-> goals[g].CollectedAmount,
                                  IsActive |-> goals[g].IsActive]
                            ELSE EmptyGoal,
                ![p].pc = IF g \notin DOMAIN goals \/ GoalClosed(goals[g].IsActive)
                          THEN "rollback" ELSE Succ("getGoal", tx[p].arg),
                ![p].err = IF g \notin DOMAIN goals THEN ErrNoRows
                           ELSE IF GoalClosed(goals[g].IsActive) THEN ErrInactive
                           ELSE ErrNil]
    /\ UNCHANGED <<goals, users, donations, nextDonationID>>
    /\ Track(p)
    /\ UNCHANGED aux

\* user, err := q.GetUser(ctx, arg.UserID.Int64); the balance check
GetUser(p) ==
    /\ tx[p].pc = "getUser"
    /\ LET u == tx[p].arg.UserID.Int64
           found == u \in DOMAIN users
           short == found /\ Insufficient(users[u].Balance, tx[p].arg.Amount)
       IN tx' = [tx EXCEPT
                   ![p].pc = IF ~found \/ short
                             THEN "rollback" ELSE Succ("getUser", tx[p].arg),
                   ![p].userBalance = IF found THEN users[u].Balance ELSE 0,
                   ![p].err = IF ~found THEN ErrNoRows
                              ELSE IF short THEN ErrInsufficient ELSE ErrNil]
    /\ UNCHANGED <<goals, users, donations, nextDonationID>>
    /\ Track(p)
    /\ UNCHANGED aux

\* result.User, err = q.UpdateUserBalance(ctx, {ID, Balance: newBalance}); the
\* UPDATE ... RETURNING of a row that is gone returns no rows
UpdateUserBalance(p) ==
    /\ tx[p].pc = "updateUserBalance"
    /\ LET u == tx[p].arg.UserID.Int64 IN
          /\ UserLockedBy(u) \subseteq {p}
          /\ IF u \in DOMAIN users
             THEN LET b == UpdateUserBalanceSQL(users[u].Balance,
                              NewBalance(tx[p].userBalance, tx[p].arg.Amount))
                  IN tx' = [tx EXCEPT
                              ![p].wUser = {b},
                              ![p].result.User = [ID |-> u, Balance |-> b],
                              ![p].result.FromBalance = tx[p].userBalance,
                              ![p].result.ToBalance = b,
                              ![p].pc = Succ("updateUserBalance", tx[p].arg)]
             ELSE tx' = [tx EXCEPT ![p].err = ErrNoRows, ![p].pc = "rollback"]
    /\ UNCHANGED <<goals, users, donations, nextDonationID>>
    /\ Track(p)
    /\ UNCHANGED aux

\* result.Donation, err = q.CreateDonation(ctx, {UserID, GoalID, Amount, IsAnonymous});
\* the insert fails when the goal or the user it references is gone
CreateDonation(p) ==
    /\ tx[p].pc = "createDonation"
    /\ LET d == [ID |-> nextDonationID, GoalID |-> tx[p].arg.GoalID,
                 UserID |-> tx[p].arg.UserID, Amount |-> tx[p].arg.Amount,
                 IsAnonymous |-> tx[p].arg.IsAnonymous]
           referenced == /\ d.GoalID \in DOMAIN goals
                         /\ d.UserID.Valid => d.UserID.Int64 \in DOMAIN users
       IN tx' = IF referenced
                THEN [tx EXCEPT ![p].wDonation = {d},
                                ![p].result.Donation = d,
                                ![p].pc = Succ("createDonation", tx[p].arg)]
                ELSE [tx EXCEPT ![p].err = ErrForeignKey, ![p].pc = "rollback"]
    /\ nextDonationID' = nextDonationID + 1
    /\ UNCHANGED <<goals, users, donations>>
    /\ Track(p)
    /\ UNCHANGED aux

\* err = q.UpdateGoalCollectedAmount(ctx, {ID, CollectedAmount: arg.Amount})
UpdateGoalCollectedAmount(p) ==
    /\ tx[p].pc = "updateGoalCollectedAmount"
    /\ LET g == tx[p].arg.GoalID IN
          /\ GoalLockedBy(g) \subseteq {p}
          /\ tx' = [tx EXCEPT
                      ![p].wGoal = {UpdateGoalCollectedAmountSQL(
                                       goals[g].CollectedAmount,
                                       GoalDelta(tx[p].goal.CollectedAmount,
                                                 tx[p].arg.Amount))},
                      ![p].pc = Succ("updateGoalCollectedAmount", tx[p].arg)]
    /\ UNCHANGED <<goals, users, donations, nextDonationID>>
    /\ Track(p)
    /\ UNCHANGED aux

\* result.Goal, err = q.GetGoal(ctx, arg.GoalID): the transaction sees its own write
GetUpdatedGoal(p) ==
    /\ tx[p].pc = "getUpdatedGoal"
    /\ LET g == tx[p].arg.GoalID
           c == IF tx[p].wGoal = {} THEN goals[g].CollectedAmount
                ELSE CHOOSE v \in tx[p].wGoal : TRUE
       IN tx' = [tx EXCEPT
                   ![p].result.Goal = [ID |-> g, CollectedAmount |-> c,
                                       IsActive |-> goals[g].IsActive],
                   ![p].pc = Succ("getUpdatedGoal", tx[p].arg)]
    /\ UNCHANGED <<goals, users, donations, nextDonationID>>
    /\ Track(p)
    /\ UNCHANGED aux

\* the open transactions that use a row p has written
Overlapped(p) ==
    {q \in DOMAIN tx \ {p} :
        /\ InTx(q)
        /\ \/ tx[p].wGoal /= {} /\ tx[q].arg.GoalID = tx[p].arg.GoalID
           \/ tx[p].wUser /= {} /\ tx[q].arg.UserID = tx[p].arg.UserID}

\* the tables after the transaction's writes are applied
CommitGoals(p) ==
    IF tx[p].wGoal = {} THEN goals
    ELSE [goals EXCEPT ![tx[p].arg.GoalID].CollectedAmount = CHOOSE v \in tx[p].wGoal : TRUE]

CommitUsers(p) ==
    IF tx[p].wUser = {} THEN users
    ELSE [users EXCEPT ![tx[p].arg.UserID.Int64].Balance = CHOOSE v \in tx[p].wUser : TRUE]

\* execTx: the callback returned nil, tx.Commit(ctx) succeeds
Commit(p) ==
    /\ tx[p].pc = "commit"
    /\ goals' = CommitGoals(p)
    /\ users' = CommitUsers(p)
    /\ donations' = donations \cup tx[p].wDonation
    /\ tx' = [tx EXCEPT ![p].pc = "done", ![p].ended = "commit",
                        ![p].wUser = {}, ![p].wGoal = {}, ![p].wDonation = {}]
    /\ hist' = [q \in DOMAIN hist |->
                  IF q = p THEN [hist[q] EXCEPT !.wrote = @ \/ (committed' /= committed)]
                  ELSE IF q \in Overlapped(p) THEN [hist[q] EXCEPT !.overlap = TRUE]
                  ELSE hist[q]]
    /\ UNCHANGED nextDonationID
    /\ UNCHANGED aux

\* mutant: the transaction of a failed callback is committed
RollbackKeepsWrites(p) ==
    /\ tx[p].pc = "rollback"
    /\ goals' = CommitGoals(p)
    /\ users' = CommitUsers(p)
    /\ donations' = donations \cup tx[p].wDonation
    /\ tx' = [tx EXCEPT ![p].pc = "done", ![p].ended = "commit",
                        ![p].wUser = {}, ![p].wGoal = {}, ![p].wDonation = {}]
    /\ UNCHANGED nextDonationID
    /\ Track(p)
    /\ UNCHANGED aux

\* execTx: the callback returned an error, tx.Rollback(ctx)
Rollback(p) ==
    /\ tx[p].pc = "rollback"
    /\ tx' = [tx EXCEPT ![p].pc = "done", ![p].ended = "rollback",
                        ![p].wUser = {}, ![p].wGoal = {}, ![p].wDonation = {}]
    /\ UNCHANGED <<goals, users, donations, nextDonationID>>
    /\ Track(p)
    /\ UNCHANGED aux

\* a statement of the transaction fails in the store (connection lost, context
\* cancelled): BeginTx returns the error, a query makes the callback return it,
\* a failed Commit leaves the transaction aborted
StoreFailure(p) ==
    /\ tx[p].pc \in {"begin", "getGoal", "getUser", "updateUserBalance", "createDonation",
                     "updateGoalCollectedAmount", "getUpdatedGoal", "commit"}
    /\ tx' = [tx EXCEPT
                ![p].err = ErrStore,
                ![p].pc = IF tx[p].pc \in {"begin", "commit"} THEN "done" ELSE "rollback",
                ![p].ended = IF tx[p].pc = "commit" THEN "commit" ELSE tx[p].ended,
                ![p].wUser = IF tx[p].pc = "commit" THEN {} ELSE @,
                ![p].wGoal = IF tx[p].pc = "commit" THEN {} ELSE @,
                ![p].wDonation = IF tx[p].pc = "commit" THEN {} ELSE @]
    /\ UNCHANGED <<goals, users, donations, nextDonationID>>
    /\ Track(p)
    /\ UNCHANGED aux

\* store.UpdateGoal(ctx, {ID, IsActive}) as its own statement: it waits for the
\* goal's row lock and sets is_active
UpdateGoal(g, active) ==
    /\ g \in DOMAIN goals
    /\ GoalLockedBy(g) = {}
    /\ goals[g].IsActive /= active
    /\ goals' = [goals EXCEPT ![g].IsActive = active]
    /\ hist' = [q \in DOMAIN hist |->
                  IF active /\ tx[q].pc /= "idle" /\ tx[q].arg.GoalID = g
                  THEN [hist[q] EXCEPT !.sawActive = TRUE] ELSE hist[q]]
    /\ UNCHANGED <<users, donations, nextDonationID, tx>>
    /\ UNCHANGED aux

Next ==
    \/ \E p \in Procs : Call(p, DonateToGoalTxParams)
    \/ \E p \in Procs : Begin(p)
    \/ \E p \in Procs : GetGoal(p)
    \/ \E p \in Procs : GetUser(p)
    \/ \E p \in Procs : UpdateUserBalance(p)
    \/ \E p \in Procs : CreateDonation(p)
    \/ \E p \in Procs : UpdateGoalCollectedAmount(p)
    \/ \E p \in Procs : GetUpdatedGoal(p)
    \/ \E p \in Procs : Commit(p)
    \/ \E p \in Procs : Rollback(p)
    \/ \E p \in Procs : StoreFailure(p)
    \/ \E g \in GoalIds, active \in BOOLEAN : UpdateGoal(g, active)

Spec == Init /\ [][Next]_vars

\* ------------------------------------------------ the cross pattern, fairly scheduled
InitCross ==
    /\ InitTables(CrossGoalIds)
    /\ tx = [p \in CrossProcs |-> IdleTx]
    /\ hist = [p \in CrossProcs |-> IdleHist]
    /\ admin = NoAdmin
    /\ InitWeb({})
    /\ InitAuth({})

\* a step of caller p: the goroutine runs and the store executes its statements.
\* Every call of the pattern is valid and no statement fails, so a callback that
\* returned an error would stay at its rollback and never return.
CrossStep(p) ==
    \/ Call(p, CrossParams)
    \/ Begin(p)
    \/ GetGoal(p)
    \/ GetUser(p)
    \/ UpdateUserBalance(p)
    \/ CreateDonation(p)
    \/ UpdateGoalCollectedAmount(p)
    \/ GetUpdatedGoal(p)
    \/ Commit(p)

NextCross == \E p \in CrossProcs : CrossStep(p)

SpecCross == InitCross /\ [][NextCross]_vars /\ \A p \in CrossProcs : WF_vars(CrossStep(p))

\* ------------------------------------------------ donations and the deletion of rows
\* the committed donation rows that reference a goal
DonationsOf(g) == {d \in donations : d.GoalID = g}

\* the transactions whose uncommitted donation row references the goal or the user:
\* the foreign-key check of the insert holds a FOR KEY SHARE lock on the row
GoalReferencedBy(g) == {q \in DOMAIN tx : \E d \in tx[q].wDonation : d.GoalID = g}
UserReferencedBy(u) == {q \in DOMAIN tx : \E d \in tx[q].wDonation : d.UserID = Int8(u)}

\* mutant: the foreign keys of donations are declared ON DELETE CASCADE
DeleteGoalCascade(g) ==
    /\ g \in DOMAIN goals
    /\ GoalLockedBy(g) = {} /\ GoalReferencedBy(g) = {}
    /\ goals' = [h \in DOMAIN goals \ {g} |-> goals[h]]
    /\ donations' = donations \ DonationsOf(g)
    /\ admin' = [NoAdmin EXCEPT !.op = "DeleteGoal", !.id = g, !.status = StatusNoContent]
    /\ UNCHANGED <<users, nextDonationID, tx, hist, webVars, authVars>>

\* store.DeleteGoal(ctx, id), DELETE /goals/:id: the statement waits for the row's
\* locks and fails, changing nothing, while a donation row references the goal
DeleteGoal(g) ==
    /\ g \in DOMAIN goals
    /\ GoalLockedBy(g) = {} /\ GoalReferencedBy(g) = {}
    /\ IF DonationsOf(g) = {}
       THEN /\ goals' = [h \in DOMAIN goals \ {g} |-> goals[h]]
            /\ admin' = [NoAdmin EXCEPT !.op = "DeleteGoal", !.id = g,
                                        !.status = StatusNoContent]
       ELSE /\ goals' = goals
            /\ admin' = [NoAdmin EXCEPT !.op = "DeleteGoal", !.id = g,
                                        !.status = StatusInternalServerError,
                                        !.err = ErrForeignKey]
    /\ UNCHANGED <<users, donations, nextDonationID, tx, hist, webVars, authVars>>

\* store.DeleteUser(ctx, id)
DeleteUser(u) ==
    /\ u \in DOMAIN users
    /\ UserLockedBy(u) = {} /\ UserReferencedBy(u) = {}
    /\ IF {d \in donations : d.UserID = Int8(u)} = {}
       THEN /\ users' = [v \in DOMAIN users \ {u} |-> users[v]]
            /\ admin' = [NoAdmin EXCEPT !.op = "DeleteUser", !.id = u]
       ELSE /\ users' = users
            /\ admin' = [NoAdmin EXCEPT !.op = "DeleteUser", !.id = u, !.err = ErrForeignKey]
    /\ UNCHANGED <<goals, donations, nextDonationID, tx, hist, webVars, authVars>>

NextDelete ==
    \/ \E p \in CrossProcs : Call(p, CrossParams)
    \/ \E p \in CrossProcs : Begin(p)
    \/ \E p \in CrossProcs : GetGoal(p)
    \/ \E p \in CrossProcs : GetUser(p)
    \/ \E p \in CrossProcs : UpdateUserBalance(p)
    \/ \E p \in CrossProcs : CreateDonation(p)
    \/ \E p \in CrossProcs : UpdateGoalCollectedAmount(p)
    \/ \E p \in CrossProcs : GetUpdatedGoal(p)
    \/ \E p \in CrossProcs : Commit(p)
    \/ \E p \in CrossProcs : Rollback(p)
    \/ \E g \in CrossGoalIds : DeleteGoal(g)
    \/ \E u \in UserIds : DeleteUser(u)

SpecDelete == InitCross /\ [][NextDelete]_vars

\* ------------------------------------------------ the HTTP server: POST /donations
\* and POST /donations/anonymous behind the authorization and rate limit middleware
RouteDonations == "/donations"
RouteAnonymous == "/donations/anonymous"
\* goal ids of a request body: none (the zero value), a goal's, an unknown one
ApiGoalIds == {0, 1, 999}
ApiAmounts == (0 - 1) .. (MaxRegisteredDonation + 1)

\* the requests a client may send: a POST /donations/anonymous carries no token
\* and no is_anonymous
ApiRequests(IPs) ==
    {q \in [route : {RouteDonations, RouteAnonymous}, ip : IPs, authed : BOOLEAN,
            userID : {0, 1}, goalID : ApiGoalIds, amount : ApiAmounts,
            isAnonymous : BOOLEAN] :
        /\ q.authed <=> q.userID /= 0
        /\ q.route = RouteAnonymous => ~q.authed /\ ~q.isAnonymous}

\* the valid anonymous donations of TestRateLimiting
RateRequests ==
    {q \in ApiRequests(ClientIPs) :
        q.route = RouteAnonymous /\ q.goalID = 1 /\ q.amount = 1}


\* the requests of the visitor that are inside the window: reqTime.After(cutoff)
ValidRequests(requests, cutoff) == SelectSeq(requests, LAMBDA t : t > cutoff)

\* visitor.requests of an ip, empty for an ip the map does not have
RequestsOf(ip) == IF ip \in DOMAIN visitors THEN visitors[ip] ELSE <<>>

\* mutant: the limit is compared with the length the wrong way round
UnderRateLimitOff(n) == n <= RateLimitPerMinute

\* the negation of: if len(visitor.requests) >= rl.rate
UnderRateLimit(n) == n < RateLimitPerMinute

\* mutant: the ceiling is not enforced
ExceedsLimitUnchecked(amount, max) == FALSE

\* if req.Amount > server.config.Max...Donation
ExceedsLimit(amount, max) == amount > max

\* the ceiling of a route
MaxDonation(route) ==
    IF route = RouteAnonymous THEN MaxAnonymousDonation ELSE MaxRegisteredDonation

\* binding:"required" on goal_id, binding:"required,min=1" on amount
Binds(q) == q.goalID /= 0 /\ q.amount >= 1

\* the answer of a request, which ends it
Respond(r, status) == [reqs EXCEPT ![r].pc = "done", ![r].status = status]

\* a client sends a request
Arrive(r, Requests) ==
    /\ reqs[r].pc = "new"
    /\ \E q \in Requests :
          reqs' = [reqs EXCEPT ![r] =
              [NewRequest EXCEPT
                 !.pc = IF q.route = RouteDonations THEN "auth" ELSE "rateLimit",
                 !.route = q.route, !.ip = q.ip, !.authed = q.authed,
                 !.userID = q.userID, !.goalID = q.goalID, !.amount = q.amount,
                 !.isAnonymous = q.isAnonymous]]
    /\ UNCHANGED <<now, visitors, admitted, locks, storeVars, authVars>>

\* authMiddleware: a request without a valid access token is aborted with 401
AuthMiddleware(r) ==
    /\ reqs[r].pc = "auth"
    /\ reqs' = IF reqs[r].authed THEN [reqs EXCEPT ![r].pc = "rateLimit"]
               ELSE Respond(r, StatusUnauthorized)
    /\ UNCHANGED <<now, visitors, admitted, locks, storeVars, authVars>>

\* RateLimitMiddleware: rateLimiter.Allow(ctx.ClientIP()), run under rl.mutex, and
\* the 429 of a request that is not allowed
RateLimitMiddleware(r) ==
    /\ reqs[r].pc = "rateLimit"
    /\ LET ip == reqs[r].ip
           valid == ValidRequests(RequestsOf(ip), now - Window)
           allow == UnderRateLimit(Len(valid))
       IN /\ visitors' = [i \in DOMAIN visitors \cup {ip} |->
                            IF i /= ip THEN visitors[i]
                            ELSE IF allow THEN Append(valid, now) ELSE valid]
          /\ admitted' = IF allow THEN [admitted EXCEPT ![ip] = Append(@, now)]
                         ELSE admitted
          /\ reqs' = IF allow THEN [reqs EXCEPT ![r].pc = "bind"]
                     ELSE Respond(r, StatusTooManyRequests)
    /\ UNCHANGED <<now, locks, storeVars, authVars>>

\* createDonation / createAnonymousDonation: ShouldBindJSON and the ceiling
HandlerBind(r) ==
    /\ reqs[r].pc = "bind"
    /\ reqs' = IF ~Binds(reqs[r]) THEN Respond(r, StatusBadRequest)
               ELSE IF ExceedsLimit(reqs[r].amount, MaxDonation(reqs[r].route))
               THEN Respond(r, StatusBadRequest)
               ELSE [reqs EXCEPT ![r].pc = "getGoal"]
    /\ UNCHANGED <<now, visitors, admitted, locks, storeVars, authVars>>

\* _, err := server.store.GetGoal(ctx, req.GoalID): 404 for sql.ErrNoRows, 500 for
\* any other error (the error of a failing store, and pgx.ErrNoRows)
HandlerGetGoal(r) ==
    /\ reqs[r].pc = "getGoal"
    /\ \E err \in IF reqs[r].goalID \in DOMAIN goals THEN {ErrNil, ErrStore}
                  ELSE {"sql: no rows in result set", ErrNoRows, ErrStore} :
          reqs' = IF err = ErrNil
                  THEN [reqs EXCEPT ![r].pc = "donate", ![r].calls = Append(@, "GetGoal")]
                  ELSE [Respond(r, IF err = "sql: no rows in result set"
                                   THEN StatusNotFound ELSE StatusInternalServerError)
                           EXCEPT ![r].calls = Append(@, "GetGoal")]
    /\ UNCHANGED <<now, visitors, admitted, locks, storeVars, authVars>>

\* result, err := server.store.DonateToGoalTx(ctx, arg): 201, or 500 for an error
HandlerDonate(r) ==
    /\ reqs[r].pc = "donate"
    /\ LET arg == [UserID |-> IF reqs[r].route = RouteAnonymous THEN NullInt8
                              ELSE Int8(reqs[r].userID),
                   GoalID |-> reqs[r].goalID,
                   Amount |-> reqs[r].amount,
                   IsAnonymous |-> IF reqs[r].route = RouteAnonymous THEN TRUE
                                   ELSE reqs[r].isAnonymous]
       IN \E err \in {ErrNil, ErrInactive, ErrInsufficient, ErrStore} :
             reqs' = [Respond(r, IF err = ErrNil THEN StatusCreated
                                 ELSE StatusInternalServerError)
                        EXCEPT ![r].calls = Append(@, "DonateToGoalTx"), ![r].arg = arg]
    /\ UNCHANGED <<now, visitors, admitted, locks, storeVars, authVars>>

\* time passes
Tick ==
    /\ now < MaxTime
    /\ now' = now + 1
    /\ UNCHANGED <<visitors, admitted, reqs, locks, storeVars, authVars>>

\* cleanupVisitors, one round of the ticker under rl.mutex: a visitor whose last
\* request is older than the cleanup age, or who has none, is removed
CleanupVisitors ==
    /\ LET stale == {ip \in DOMAIN visitors :
                        \/ Len(visitors[ip]) = 0
                        \/ visitors[ip][Len(visitors[ip])] < now - CleanupAge}
       IN /\ stale /= {}
          /\ visitors' = [ip \in DOMAIN visitors \ stale |-> visitors[ip]]
    /\ UNCHANGED <<now, admitted, reqs, locks, storeVars, authVars>>

\* the two donation routes, one client, every request body
LimitReqs == {1, 2}

InitLimits ==
    /\ InitTables(GoalIds)
    /\ tx = [p \in Procs |-> IdleTx]
    /\ hist = [p \in Procs |-> IdleHist]
    /\ admin = NoAdmin
    /\ InitWeb(LimitReqs)
    /\ InitAuth({})

NextLimits ==
    \/ \E r \in LimitReqs : Arrive(r, ApiRequests({1}))
    \/ \E r \in LimitReqs : AuthMiddleware(r)
    \/ \E r \in LimitReqs : RateLimitMiddleware(r)
    \/ \E r \in LimitReqs : HandlerBind(r)
    \/ \E r \in LimitReqs : HandlerGetGoal(r)
    \/ \E r \in LimitReqs : HandlerDonate(r)

SpecLimits == InitLimits /\ [][NextLimits]_vars

\* the rate limiter under valid anonymous donations of two clients, with the clock
RateReqs == {1, 2, 3}

InitRate ==
    /\ InitTables(GoalIds)
    /\ tx = [p \in Procs |-> IdleTx]
    /\ hist = [p \in Procs |-> IdleHist]
    /\ admin = NoAdmin
    /\ InitWeb(RateReqs)
    /\ InitAuth({})

NextRate ==
    \/ \E r \in RateReqs : Arrive(r, RateRequests)
    \/ \E r \in RateReqs : RateLimitMiddleware(r)
    \/ \E r \in RateReqs : HandlerBind(r)
    \/ \E r \in RateReqs : HandlerGetGoal(r)
    \/ \E r \in RateReqs : HandlerDonate(r)
    \/ Tick
    \/ CleanupVisitors

SpecRate == InitRate /\ [][NextRate]_vars

\* ------------------------------------------------ refresh tokens: POST /auth/refresh,
\* POST /auth/logout and POST /auth/logout-all over the refresh_tokens table
RouteRefresh == "/auth/refresh"
RouteLogout == "/auth/logout"
RouteLogoutAll == "/auth/logout-all"

\* a string that is no refresh token of this server, and a refresh token of this
\* server that the table never had
NoToken == 0
UnknownToken == 99

\* mutant: the query does not look at revoked_at
TokenFoundRevoked(t) == t \in DOMAIN refreshTokens /\ ~refreshTokens[t].Expired

\* -- name: GetRefreshToken :one   WHERE token_id = $1 AND revoked_at IS NULL AND
\* expires_at > now()
TokenFound(t) ==
    t \in DOMAIN refreshTokens /\ ~refreshTokens[t].Revoked /\ ~refreshTokens[t].Expired

\* the rows GetRefreshToken can return
LiveTokens ==
    {t \in DOMAIN refreshTokens : ~refreshTokens[t].Revoked /\ ~refreshTokens[t].Expired}

\* the refresh tokens that have been handed to a client of user u: those of the
\* logins before, and those of the refreshes that were answered
IssuedTo(u) ==
    {t \in InitTokens : InitTokenUser(t) = u} \cup
    {sess[s].newToken : s \in {x \in DOMAIN sess : /\ sess[x].pc = "done"
                                                 /\ sess[x].status = StatusOK
                                                 /\ sess[x].route = RouteRefresh
                                                 /\ sess[x].dbUserID = u}}

Issued == UNION {IssuedTo(u) : u \in UserIds}

\* the requests a client may send: POST /auth/refresh and POST /auth/logout with
\* a refresh token it was handed, with one the table never had or with a string
\* that is none; POST /auth/logout-all with the access token of a user or without
AuthRequests ==
    [route : {RouteRefresh, RouteLogout},
     token : Issued \cup {NoToken, UnknownToken}, userID : {0}]
    \cup [route : {RouteLogoutAll}, token : {NoToken}, userID : {0, 1}]

\* tokenMaker.VerifyToken(req.RefreshToken, token.TokenTypeRefreshToken)
VerifyToken(t) ==
    /\ t /= NoToken
    /\ t \in DOMAIN refreshTokens => ~refreshTokens[t].Expired

\* -- name: RevokeRefreshToken :exec   SET revoked_at = now() WHERE token_id = $1
RevokeRefreshTokenSQL(t) ==
    [x \in DOMAIN refreshTokens |->
        IF x = t THEN [refreshTokens[x] EXCEPT !.Revoked = TRUE] ELSE refreshTokens[x]]

\* -- name: RevokeAllUserRefreshTokens :exec   WHERE user_id = $1 AND revoked_at IS NULL
RevokeAllUserRefreshTokensSQL(u) ==
    [x \in DOMAIN refreshTokens |->
        IF refreshTokens[x].UserID = u /\ ~refreshTokens[x].Revoked
        THEN [refreshTokens[x] EXCEPT !.Revoked = TRUE] ELSE refreshTokens[x]]

\* the answer of a request, which ends it
Answer(s, status) == [sess EXCEPT ![s].pc = "done", ![s].status = status]

\* a client sends a request
Send(s) ==
    /\ sess[s].pc = "new"
    /\ \E q \in AuthRequests :
          sess' = [sess EXCEPT ![s] =
              [NewSession EXCEPT
                  !.pc = IF q.route = RouteLogoutAll THEN "auth" ELSE "verify",
                  !.route = q.route, !.token = q.token, !.userID = q.userID,
                  !.late = q.token \in banned,
                  !.issuedBefore = IssuedTo(q.userID)]]
    /\ UNCHANGED <<refreshTokens, nextTokenID, banned, storeVars, webVars>>

\* refreshToken / logoutUser: ShouldBindJSON and VerifyToken, 401 for a token that
\* does not verify
VerifyRefreshToken(s) ==
    /\ sess[s].pc = "verify"
    /\ sess' = IF VerifyToken(sess[s].token)
               THEN [sess EXCEPT ![s].pc = IF sess[s].route = RouteRefresh
                                           THEN "getRefreshToken" ELSE "revoke"]
               ELSE Answer(s, StatusUnauthorized)
    /\ UNCHANGED <<refreshTokens, nextTokenID, banned, storeVars, webVars>>

\* dbRefreshToken, err := server.store.GetRefreshToken(ctx, refreshPayload.ID): 401
\* for sql.ErrNoRows, 500 for any other error (a failing store, pgx.ErrNoRows)
GetRefreshToken(s) ==
    /\ sess[s].pc = "getRefreshToken"
    /\ \E err \in IF TokenFound(sess[s].token) THEN {ErrNil, ErrStore}
                  ELSE {"sql: no rows in result set", ErrNoRows, ErrStore} :
          sess' = IF err = ErrNil
                  THEN [sess EXCEPT ![s].pc = "revoke",
                                    ![s].dbUserID = refreshTokens[sess[s].token].UserID]
                  ELSE Answer(s, IF err = "sql: no rows in result set"
                                 THEN StatusUnauthorized ELSE StatusInternalServerError)
    /\ UNCHANGED <<refreshTokens, nextTokenID, banned, storeVars, webVars>>

\* err = server.store.RevokeRefreshToken(ctx, refreshPayload.ID), of a refresh (the
\* new tokens are made before it) and of a logout, which it ends
RevokeRefreshToken(s) ==
    /\ sess[s].pc = "revoke"
    /\ \E err \in {ErrNil, ErrStore} :
          IF err /= ErrNil
          THEN /\ sess' = Answer(s, StatusInternalServerError)
               /\ UNCHANGED <<refreshTokens, banned>>
          ELSE /\ refreshTokens' = RevokeRefreshTokenSQL(sess[s].token)
               /\ IF sess[s].route = RouteRefresh
                  THEN sess' = [sess EXCEPT ![s].pc = "create"] /\ banned' = banned
                  ELSE sess' = Answer(s, StatusOK) /\ banned' = banned \cup {sess[s].token}
    /\ UNCHANGED <<nextTokenID, storeVars, webVars>>

\* _, err = server.store.CreateRefreshToken(ctx, ...) and the 200 of the refresh
CreateRefreshToken(s) ==
    /\ sess[s].pc = "create"
    /\ \E err \in {ErrNil, ErrStore} :
          IF err /= ErrNil
          THEN /\ sess' = Answer(s, StatusInternalServerError)
               /\ UNCHANGED <<refreshTokens, nextTokenID>>
          ELSE /\ refreshTokens' =
                     [x \in DOMAIN refreshTokens \cup {nextTokenID} |->
                         IF x = nextTokenID
                         THEN [UserID |-> sess[s].dbUserID, Revoked |-> FALSE,
                               Expired |-> FALSE]
                         ELSE refreshTokens[x]]
               /\ nextTokenID' = nextTokenID + 1
               /\ sess' = [Answer(s, StatusOK) EXCEPT ![s].newToken = nextTokenID]
    /\ UNCHANGED <<banned, storeVars, webVars>>

\* authMiddleware in front of POST /auth/logout-all
AuthLogoutAll(s) ==
    /\ sess[s].pc = "auth"
    /\ sess' = IF sess[s].userID /= 0 THEN [sess EXCEPT ![s].pc = "revokeAll"]
               ELSE Answer(s, StatusUnauthorized)
    /\ UNCHANGED <<refreshTokens, nextTokenID, banned, storeVars, webVars>>

\* logoutAllDevices: server.store.RevokeAllUserRefreshTokens(ctx, authPayload.UserID)
RevokeAllUserRefreshTokens(s) ==
    /\ sess[s].pc = "revokeAll"
    /\ \E err \in {ErrNil, ErrStore} :
          IF err /= ErrNil
          THEN /\ sess' = Answer(s, StatusInternalServerError)
               /\ UNCHANGED <<refreshTokens, banned>>
          ELSE /\ refreshTokens' = RevokeAllUserRefreshTokensSQL(sess[s].userID)
               /\ sess' = Answer(s, StatusOK)
               /\ banned' = banned \cup sess[s].issuedBefore
    /\ UNCHANGED <<nextTokenID, storeVars, webVars>>

\* time passes the expiry of a token
Expire(t) ==
    /\ t \in DOMAIN refreshTokens
    /\ ~refreshTokens[t].Expired
    /\ refreshTokens' = [refreshTokens EXCEPT ![t].Expired = TRUE]
    /\ UNCHANGED <<nextTokenID, sess, banned, storeVars, webVars>>

\* store.CleanupExpiredRefreshTokens(ctx): the expired and the revoked rows go
CleanupExpiredRefreshTokens ==
    /\ LiveTokens /= DOMAIN refreshTokens
    /\ refreshTokens' = [x \in LiveTokens |-> refreshTokens[x]]
    /\ UNCHANGED <<nextTokenID, sess, banned, storeVars, webVars>>

Sessions == {1, 2, 3}

InitTokenSpec ==
    /\ InitTables(GoalIds)
    /\ tx = [p \in Procs |-> IdleTx]
    /\ hist = [p \in Procs |-> IdleHist]
    /\ admin = NoAdmin
    /\ InitWeb({})
    /\ InitAuth(Sessions)

NextToken ==
    \/ \E s \in Sessions : Send(s)
    \/ \E s \in Sessions : VerifyRefreshToken(s)
    \/ \E s \in Sessions : GetRefreshToken(s)
    \/ \E s \in Sessions : RevokeRefreshToken(s)
    \/ \E s \in Sessions : CreateRefreshToken(s)
    \/ \E s \in Sessions : AuthLogoutAll(s)
    \/ \E s \in Sessions : RevokeAllUserRefreshTokens(s)
    \/ \E t \in InitTokens : Expire(t)
    \/ CleanupExpiredRefreshTokens

SpecToken == InitTokenSpec /\ [][NextToken]_vars

\* ------------------------------------------------ the DonateToGoalTx of part_003:
\* the donation row first, then the goal's total from the total it read; no
\* validation, no donor balance
\* fmt.Errorf("DonateToGoalTx: %w", fmt.Errorf(step + ": %w", err))
WrapP3(step, err) == "DonateToGoalTx: " \o step \o ": " \o err

\* the statement that follows each statement of the callback
SuccP3(pc, arg) ==
    CASE pc = "createDonation" -> "getGoal"
      [] pc = "getGoal" -> "updateGoalCollectedAmount"
      [] pc = "updateGoalCollectedAmount" -> "getUpdatedGoal"
      [] pc = "getUpdatedGoal" -> IF arg.UserID.Valid THEN "getUser" ELSE "commit"
      [] pc = "getUser" -> "commit"

\* execTx: BeginTx succeeded, the callback starts
BeginP3(p) ==
    /\ tx[p].pc = "begin"
    /\ tx' = [tx EXCEPT ![p].opened = TRUE, ![p].pc = "createDonation"]
    /\ UNCHANGED <<goals, users, donations, nextDonationID>>
    /\ Track(p)
    /\ UNCHANGED aux

\* 1. result.Donation, err = q.CreateDonation(ctx, ...)
CreateDonationP3(p) ==
    /\ tx[p].pc = "createDonation"
    /\ LET d == [ID |-> nextDonationID, GoalID |-> tx[p].arg.GoalID,
                 UserID |-> tx[p].arg.UserID, Amount |-> tx[p].arg.Amount,
                 IsAnonymous |-> tx[p].arg.IsAnonymous]
           referenced == /\ d.GoalID \in DOMAIN goals
                         /\ d.UserID.Valid => d.UserID.Int64 \in DOMAIN users
       IN tx' = IF referenced
                THEN [tx EXCEPT ![p].wDonation = {d},
                                ![p].result.Donation = d,
                                ![p].pc = SuccP3("createDonation", tx[p].arg)]
                ELSE [tx EXCEPT ![p].err = WrapP3("create donation", ErrForeignKey),
                                ![p].pc = "rollback"]
    /\ nextDonationID' = nextDonationID + 1
    /\ UNCHANGED <<goals, users, donations>>
    /\ Track(p)
    /\ UNCHANGED aux

\* 2. goal, err := q.GetGoal(ctx, arg.GoalID)
GetGoalP3(p) ==
    /\ tx[p].pc = "getGoal"
    /\ LET g == tx[p].arg.GoalID IN
       tx' = [tx EXCEPT
                ![p].goal = [ID |-> g, CollectedAmount |-> goals[g].CollectedAmount,
                             IsActive |-> goals[g].IsActive],
                ![p].pc = SuccP3("getGoal", tx[p].arg)]
    /\ UNCHANGED <<goals, users, donations, nextDonationID>>
    /\ Track(p)
    /\ UNCHANGED aux

\* 3. err = q.UpdateGoalCollectedAmount(ctx, {ID, CollectedAmount: newCollectedAmount})
UpdateGoalCollectedAmountP3(p) ==
    /\ tx[p].pc = "updateGoalCollectedAmount"
    /\ LET g == tx[p].arg.GoalID IN
          /\ GoalLockedBy(g) \subseteq {p}
          /\ tx' = [tx EXCEPT
                      ![p].wGoal = {UpdateGoalCollectedAmountSQL(
                                       goals[g].CollectedAmount,
                                       tx[p].goal.CollectedAmount + tx[p].arg.Amount)},
                      ![p].pc = SuccP3("updateGoalCollectedAmount", tx[p].arg)]
    /\ UNCHANGED <<goals, users, donations, nextDonationID>>
    /\ Track(p)
    /\ UNCHANGED aux

\* 4. result.Goal, err = q.GetGoal(ctx, arg.GoalID)
GetUpdatedGoalP3(p) ==
    /\ tx[p].pc = "getUpdatedGoal"
    /\ LET g == tx[p].arg.GoalID
           c == CHOOSE v \in tx[p].wGoal : TRUE
       IN tx' = [tx EXCEPT
                   ![p].result.Goal = [ID |-> g, CollectedAmount |-> c,
                                       IsActive |-> goals[g].IsActive],
                   ![p].pc = SuccP3("getUpdatedGoal", tx[p].arg)]
    /\ UNCHANGED <<goals, users, donations, nextDonationID>>
    /\ Track(p)
    /\ UNCHANGED aux

\* 5. user, err := q.GetUser(ctx, arg.UserID.Int64); result.User = user
GetUserP3(p) ==
    /\ tx[p].pc = "getUser"
    /\ LET u == tx[p].arg.UserID.Int64 IN
       tx' = [tx EXCEPT
                ![p].userBalance = users[u].Balance,
                ![p].result.User = [ID |-> u, Balance |-> users[u].Balance],
                ![p].pc = SuccP3("getUser", tx[p].arg)]
    /\ UNCHANGED <<goals, users, donations, nextDonationID>>
    /\ Track(p)
    /\ UNCHANGED aux

\* execTx: the callback returned an error, tx.Rollback(ctx); DonateToGoalTx
\* returns DonateToGoalTxResult{} with the error
RollbackP3(p) ==
    /\ tx[p].pc = "rollback"
    /\ tx' = [tx EXCEPT ![p].pc = "done", ![p].ended = "rollback",
                        ![p].wUser = {}, ![p].wGoal = {}, ![p].wDonation = {},
                        ![p].result = EmptyResult]
    /\ UNCHANGED <<goals, users, donations, nextDonationID>>
    /\ Track(p)
    /\ UNCHANGED aux

\* a statement of the transaction fails in the store: BeginTx and Commit return
\* the error, a query makes the callback return it wrapped
StoreFailureP3(p) ==
    /\ tx[p].pc \in {"begin", "createDonation", "getGoal", "updateGoalCollectedAmount",
                     "getUpdatedGoal", "getUser", "commit"}
    /\ LET step == CASE tx[p].pc = "createDonation" -> "create donation"
                     [] tx[p].pc = "getGoal" -> "get goal"
                     [] tx[p].pc = "updateGoalCollectedAmount" ->
                            "update goal collected amount"
                     [] tx[p].pc = "getUpdatedGoal" -> "get updated goal"
                     [] tx[p].pc = "getUser" -> "get user"
                     [] OTHER -> ""
       IN tx' = [tx EXCEPT
                   ![p].err = IF tx[p].pc \in {"begin", "commit"}
                              THEN "DonateToGoalTx: " \o ErrStore
                              ELSE WrapP3(step, ErrStore),
                   ![p].pc = IF tx[p].pc \in {"begin", "commit"} THEN "done" ELSE "rollback",
                   ![p].ended = IF tx[p].pc = "commit" THEN "commit" ELSE tx[p].ended,
                   ![p].result = IF tx[p].pc \in {"begin", "commit"} THEN EmptyResult ELSE @,
                   ![p].wUser = IF tx[p].pc = "commit" THEN {} ELSE @,
                   ![p].wGoal = IF tx[p].pc = "commit" THEN {} ELSE @,
                   ![p].wDonation = IF tx[p].pc = "commit" THEN {} ELSE @]
    /\ UNCHANGED <<goals, users, donations, nextDonationID>>
    /\ Track(p)
    /\ UNCHANGED aux

\* two callers with the calls of the cross pattern
NextP3 ==
    \/ \E p \in CrossProcs : Call(p, CrossParams)
    \/ \E p \in CrossProcs : BeginP3(p)
    \/ \E p \in CrossProcs : CreateDonationP3(p)
    \/ \E p \in CrossProcs : GetGoalP3(p)
    \/ \E p \in CrossProcs : UpdateGoalCollectedAmountP3(p)
    \/ \E p \in CrossProcs : GetUpdatedGoalP3(p)
    \/ \E p \in CrossProcs : GetUserP3(p)
    \/ \E p \in CrossProcs : Commit(p)
    \/ \E p \in CrossProcs : RollbackP3(p)
    \/ \E p \in CrossProcs : StoreFailureP3(p)

SpecP3 == InitCross /\ [][NextP3]_vars

\* ------------------------------------------------ execTx with a rollback that fails
\* fmt.Errorf("tx err: %v, rb err: %v", err, rbErr)
Errorf(err, rbErr) == "tx err: " \o err \o ", rb err: " \o rbErr

\* execTx: the callback returned an error and tx.Rollback(ctx) fails too (the
\* connection is lost); the server aborts the transaction it no longer hears of
RollbackFailure(p) ==
    /\ tx[p].pc = "rollback"
    /\ tx' = [tx EXCEPT ![p].pc = "done", ![p].ended = "rollback",
                        ![p].err = Errorf(tx[p].err, ErrStore),
                        ![p].wUser = {}, ![p].wGoal = {}, ![p].wDonation = {}]
    /\ UNCHANGED <<goals, users, donations, nextDonationID>>
    /\ Track(p)
    /\ UNCHANGED aux

\* one caller, every call
ExecProcs == {1}

InitExecTx ==
    /\ InitTables(GoalIds)
    /\ tx = [p \in ExecProcs |-> IdleTx]
    /\ hist = [p \in ExecProcs |-> IdleHist]
    /\ admin = NoAdmin
    /\ InitWeb({})
    /\ InitAuth({})

NextExecTx ==
    \/ \E p \in ExecProcs : Call(p, DonateToGoalTxParams)
    \/ \E p \in ExecProcs : Begin(p)
    \/ \E p \in ExecProcs : GetGoal(p)
    \/ \E p \in ExecProcs : GetUser(p)
    \/ \E p \in ExecProcs : UpdateUserBalance(p)
    \/ \E p \in ExecProcs : CreateDonation(p)
    \/ \E p \in ExecProcs : UpdateGoalCollectedAmount(p)
    \/ \E p \in ExecProcs : GetUpdatedGoal(p)
    \/ \E p \in ExecProcs : Commit(p)
    \/ \E p \in ExecProcs : Rollback(p)
    \/ \E p \in ExecProcs : RollbackFailure(p)
    \/ \E p \in ExecProcs : StoreFailure(p)
    \/ \E g \in GoalIds, active \in BOOLEAN : UpdateGoal(g, active)

SpecExecTx == InitExecTx /\ [][NextExecTx]_vars

\* ------------------------------------------------ the goal and user routes: POST
\* /goals, PUT /goals/:id, DELETE /goals/:id, POST /users and PUT /users/me, next
\* to a donation
\* the ids a new goal and a new user are given
MaxGoalID == 2
MaxUserID == 3

\* goals.title as the fixtures set it
InitTitle == "title"

\* the requests of PUT /goals/:id: for a goal the bodies with target_amount and
\* is_active each there or not and one body with every field, and a request for
\* an unknown goal and one without an access token
UpdateGoalCalls ==
    LET bodies ==
          {req \in [Title : {NoBody.Title, [Valid |-> TRUE, String |-> "new"]},
                    Description : {NoBody.Description, [Valid |-> TRUE, String |-> "new"]},
                    TargetAmount : {NullInt8, Int8(0 - 1), Int8(2)},
                    IsActive : {NoBody.IsActive} \cup [Valid : {TRUE}, Bool : BOOLEAN]] :
              /\ req.Title.Valid = req.Description.Valid
              /\ req.Title.Valid => req.TargetAmount = Int8(2) /\ req.IsActive.Valid
                                                              /\ req.IsActive.Bool
              /\ req.TargetAmount = Int8(0 - 1) => ~req.IsActive.Valid}
    IN [id : GoalIds, req : bodies, authed : {TRUE}]
       \cup [id : ArgGoalIds, req : {NoBody}, authed : BOOLEAN]

\* arg := db.UpdateGoalParams{ID: id}, with TargetAmount and IsActive set from the
\* fields the request has; IsActive is a bool and false when it has none
UpdateGoalParams(id, req) ==
    [ID |-> id, TargetAmount |-> req.TargetAmount,
     IsActive |-> IF req.IsActive.Valid THEN req.IsActive.Bool ELSE FALSE]

\* mutant: the statement also resets the total
UpdateGoalSQLResets(row, arg) ==
    [row EXCEPT !.TargetAmount = IF arg.TargetAmount.Valid THEN arg.TargetAmount ELSE @,
                !.IsActive = arg.IsActive,
                !.CollectedAmount = 0]

\* -- name: UpdateGoal :one   SET target_amount = COALESCE($2, target_amount),
\* is_active = COALESCE($3, is_active); $3 is never NULL
UpdateGoalSQL(row, arg) ==
    [row EXCEPT !.TargetAmount = IF arg.TargetAmount.Valid THEN arg.TargetAmount ELSE @,
                !.IsActive = arg.IsActive]

\* PUT /goals/:id behind authMiddleware: updateGoal binds the body and runs
\* store.UpdateGoal, which waits for the row lock; 404 for sql.ErrNoRows, 500 for
\* any other error (a failing store, pgx.ErrNoRows)
updateGoal(id, req, authed) ==
    /\ id \in DOMAIN goals => GoalLockedBy(id) = {}
    /\ \E err \in IF id \in DOMAIN goals THEN {ErrNil, ErrStore}
                  ELSE {"sql: no rows in result set", ErrNoRows, ErrStore} :
          LET \* binding:"omitempty,min=1" on target_amount
              binds == req.TargetAmount.Valid => req.TargetAmount.Int64 >= 1
              answered == ~authed \/ ~binds
              arg == UpdateGoalParams(id, req)
              done == ~answered /\ err = ErrNil
          IN /\ goals' = IF done THEN [goals EXCEPT ![id] = UpdateGoalSQL(@, arg)]
                         ELSE goals
             /\ hist' = [q \in DOMAIN hist |->
                           IF done /\ arg.IsActive /\ tx[q].pc /= "idle"
                              /\ tx[q].arg.GoalID = id
                           THEN [hist[q] EXCEPT !.sawActive = TRUE] ELSE hist[q]]
             /\ admin' = [op |-> "updateGoal", id |-> id, body |-> req,
                          status |-> IF ~authed THEN StatusUnauthorized
                                     ELSE IF ~binds THEN StatusBadRequest
                                     ELSE IF err = ErrNil THEN StatusOK
                                     ELSE IF err = "sql: no rows in result set"
                                     THEN StatusNotFound
                                     ELSE StatusInternalServerError,
                          err |-> IF answered THEN ErrNil ELSE err]
    /\ UNCHANGED <<users, donations, nextDonationID, tx, webVars, authVars>>

\* the id of the next row of a table whose ids are in S
NextID(S) == 1 + CHOOSE m \in S : \A x \in S : x <= m

\* POST /goals behind authMiddleware: createGoal inserts a goal with nothing
\* collected, open to donations
createGoal(title) ==
    /\ NextID(DOMAIN goals \cup GoalIds) <= MaxGoalID
    /\ LET id == NextID(DOMAIN goals \cup GoalIds) IN
          /\ goals' = [g \in DOMAIN goals \cup {id} |->
                         IF g = id
                         THEN [CollectedAmount |-> 0, IsActive |-> TRUE,
                               Title |-> title, Description |-> "",
                               TargetAmount |-> Int8(1)]
                         ELSE goals[g]]
          /\ admin' = [NoAdmin EXCEPT !.op = "createGoal", !.id = id,
                                      !.status = StatusCreated]
    /\ UNCHANGED <<users, donations, nextDonationID, tx, hist, webVars, authVars>>

\* POST /users: createUser inserts a user, who gets the default balance
createUser(name) ==
    /\ NextID(DOMAIN users) <= MaxUserID
    /\ LET id == NextID(DOMAIN users) IN
          /\ users' = [u \in DOMAIN users \cup {id} |->
                         IF u = id THEN [Balance |-> InitBalance, Name |-> name]
                         ELSE users[u]]
          /\ admin' = [NoAdmin EXCEPT !.op = "createUser", !.id = id,
                                      !.status = StatusCreated]
    /\ UNCHANGED <<goals, donations, nextDonationID, tx, hist, webVars, authVars>>

\* PUT /users/me behind authMiddleware: updateCurrentUser sets the name of the
\* user of the access token (UpdateUser: SET name = $2); the statement waits
\* for the row lock
updateCurrentUser(u, name) ==
    /\ u \in DOMAIN users
    /\ UserLockedBy(u) = {}
    /\ users[u].Name /= name
    /\ users' = [users EXCEPT ![u].Name = name]
    /\ admin' = [NoAdmin EXCEPT !.op = "updateCurrentUser", !.id = u,
                                !.status = StatusOK]
    /\ UNCHANGED <<goals, donations, nextDonationID, tx, hist, webVars, authVars>>

\* one caller of DonateToGoalTx, and the tables with all their columns
InitGoals ==
    /\ goals = [g \in GoalIds |->
                  [CollectedAmount |-> InitCollected, IsActive |-> TRUE,
                   Title |-> InitTitle, Description |-> "description",
                   TargetAmount |-> Int8(1)]]
    /\ users = [u \in UserIds |-> [Balance |-> InitBalanceOf(u), Name |-> "name"]]
    /\ donations = {}
    /\ nextDonationID = 1
    /\ tx = [p \in ExecProcs |-> IdleTx]
    /\ hist = [p \in ExecProcs |-> IdleHist]
    /\ admin = NoAdmin
    /\ InitWeb({})
    /\ InitAuth({})

NextGoals ==
    \/ \E p \in ExecProcs : Call(p, CrossParams)
    \/ \E p \in ExecProcs : Begin(p)
    \/ \E p \in ExecProcs : GetGoal(p)
    \/ \E p \in ExecProcs : GetUser(p)
    \/ \E p \in ExecProcs : UpdateUserBalance(p)
    \/ \E p \in ExecProcs : CreateDonation(p)
    \/ \E p \in ExecProcs : UpdateGoalCollectedAmount(p)
    \/ \E p \in ExecProcs : GetUpdatedGoal(p)
    \/ \E p \in ExecProcs : Commit(p)
    \/ \E p \in ExecProcs : Rollback(p)
    \/ \E c \in UpdateGoalCalls : updateGoal(c.id, c.req, c.authed)
    \/ createGoal("new")
    \/ \E g \in GoalIds : DeleteGoal(g)
    \/ createUser("new")
    \/ updateCurrentUser(1, "new")

SpecGoals == InitGoals /\ [][NextGoals]_vars

\* ------------------------------------------------ the rate limiter statement by
\* statement: RateLimiter.Allow and the cleanupVisitors goroutine with rl.mutex
\* and the visitors' mutexes
\* rl.mutex.Lock() of Allow; the unlock is deferred
AllowLock(r) ==
    /\ reqs[r].pc = "rateLimit"
    /\ locks.mutex = Free
    /\ locks' = [locks EXCEPT !.mutex = r]
    /\ reqs' = [reqs EXCEPT ![r].pc = "allowVisitor"]
    /\ UNCHANGED <<now, visitors, admitted, storeVars, authVars>>

\* visitor, exists := rl.visitors[ip], and the new visitor of an ip that has none
AllowVisitor(r) ==
    /\ reqs[r].pc = "allowVisitor"
    /\ visitors' = [i \in DOMAIN visitors \cup {reqs[r].ip} |-> RequestsOf(i)]
    /\ reqs' = [reqs EXCEPT ![r].pc = "allowVisitorLock"]
    /\ UNCHANGED <<now, admitted, locks, storeVars, authVars>>

\* visitor.mutex.Lock(), which waits until no writer and no reader holds the
\* mutex; the unlock is deferred
AllowVisitorLock(r) ==
    /\ reqs[r].pc = "allowVisitorLock"
    /\ locks.visitor[reqs[r].ip].writer = Free
    /\ locks.visitor[reqs[r].ip].readers = {}
    /\ locks' = [locks EXCEPT !.visitor[reqs[r].ip].writer = r]
    /\ reqs' = [reqs EXCEPT ![r].pc = "allowCheck"]
    /\ UNCHANGED <<now, visitors, admitted, storeVars, authVars>>

\* the body of Allow: the requests inside the window are kept, the length is
\* compared with the rate, and the request is added when it is allowed
AllowCheck(r) ==
    /\ reqs[r].pc = "allowCheck"
    /\ LET ip == reqs[r].ip
           valid == ValidRequests(visitors[ip], now - Window)
           allow == UnderRateLimit(Len(valid))
       IN /\ visitors' = [visitors EXCEPT ![ip] = IF allow THEN Append(valid, now)
                                                 ELSE valid]
          /\ admitted' = IF allow THEN [admitted EXCEPT ![ip] = Append(@, now)]
                         ELSE admitted
          /\ reqs' = [reqs EXCEPT ![r].pc = "allowVisitorUnlock", ![r].allow = allow]
    /\ UNCHANGED <<now, locks, storeVars, authVars>>

\* the deferred visitor.mutex.Unlock()
AllowVisitorUnlock(r) ==
    /\ reqs[r].pc = "allowVisitorUnlock"
    /\ locks' = [locks EXCEPT !.visitor[reqs[r].ip].writer = Free]
    /\ reqs' = [reqs EXCEPT ![r].pc = "allowUnlock"]
    /\ UNCHANGED <<now, visitors, admitted, storeVars, authVars>>

\* the deferred rl.mutex.Unlock(); Allow returns and RateLimitMiddleware answers
\* 429 or hands the request to the handler
AllowUnlock(r) ==
    /\ reqs[r].pc = "allowUnlock"
    /\ locks' = [locks EXCEPT !.mutex = Free]
    /\ reqs' = IF reqs[r].allow THEN [reqs EXCEPT ![r].pc = "bind"]
               ELSE Respond(r, StatusTooManyRequests)
    /\ UNCHANGED <<now, visitors, admitted, storeVars, authVars>>

\* a step of the request's goroutine inside Allow
AllowStep(r) ==
    \/ AllowLock(r)
    \/ AllowVisitor(r)
    \/ AllowVisitorLock(r)
    \/ AllowCheck(r)
    \/ AllowVisitorUnlock(r)
    \/ AllowUnlock(r)

\* cleanupVisitors: the ticker fires; rl.mutex.Lock(), the cutoff, and the range
\* over the map begins
CleanupLock ==
    /\ locks.cleanup.pc = "ticker"
    /\ locks.mutex = Free
    /\ locks' = [locks EXCEPT !.mutex = Cleaner,
                              !.cleanup = [pc |-> "range", cutoff |-> now - CleanupAge,
                                           todo |-> DOMAIN visitors, ip |-> 0,
                                           stale |-> FALSE]]
    /\ UNCHANGED <<now, visitors, admitted, reqs, storeVars, authVars>>

\* the next visitor of the range, in any order: visitor.mutex.RLock()
CleanupRLock(ip) ==
    /\ locks.cleanup.pc = "range"
    /\ ip \in locks.cleanup.todo
    /\ locks.visitor[ip].writer = Free
    /\ locks' = [locks EXCEPT !.visitor[ip].readers = @ \cup {Cleaner},
                              !.cleanup.pc = "read", !.cleanup.ip = ip]
    /\ UNCHANGED <<now, visitors, admitted, reqs, storeVars, authVars>>

\* lastRequest, the zero time for a visitor without requests, and its comparison
\* with the cutoff
CleanupRead ==
    /\ locks.cleanup.pc = "read"
    /\ LET requests == visitors[locks.cleanup.ip] IN
       locks' = [locks EXCEPT
                   !.cleanup.stale = \/ Len(requests) = 0
                                     \/ requests[Len(requests)] < locks.cleanup.cutoff,
                   !.cleanup.pc = "runlock"]
    /\ UNCHANGED <<now, visitors, admitted, reqs, storeVars, authVars>>

\* mutant: the read lock is kept
CleanupRUnlockMissing ==
    /\ locks.cleanup.pc = "runlock"
    /\ locks' = [locks EXCEPT !.cleanup.pc = "delete"]
    /\ UNCHANGED <<now, visitors, admitted, reqs, storeVars, authVars>>

\* visitor.mutex.RUnlock()
CleanupRUnlock ==
    /\ locks.cleanup.pc = "runlock"
    /\ locks' = [locks EXCEPT !.visitor[locks.cleanup.ip].readers = @ \ {Cleaner},
                              !.cleanup.pc = "delete"]
    /\ UNCHANGED <<now, visitors, admitted, reqs, storeVars, authVars>>

\* if lastRequest.Before(cutoff) { delete(rl.visitors, ip) }, and the range goes on
CleanupDelete ==
    /\ locks.cleanup.pc = "delete"
    /\ visitors' = IF locks.cleanup.stale
                   THEN [i \in DOMAIN visitors \ {locks.cleanup.ip} |-> visitors[i]]
                   ELSE visitors
    /\ locks' = [locks EXCEPT !.cleanup.todo = @ \ {locks.cleanup.ip},
                              !.cleanup.pc = "range"]
    /\ UNCHANGED <<now, admitted, reqs, storeVars, authVars>>

\* the range is over: rl.mutex.Unlock(), and the goroutine waits for the ticker
CleanupUnlock ==
    /\ locks.cleanup.pc = "range"
    /\ locks.cleanup.todo = {}
    /\ locks' = [locks EXCEPT !.mutex = Free, !.cleanup.pc = "ticker"]
    /\ UNCHANGED <<now, visitors, admitted, reqs, storeVars, authVars>>

\* a step of the cleanup goroutine inside its critical section
CleanupStep ==
    \/ \E ip \in ClientIPs : CleanupRLock(ip)
    \/ CleanupRead
    \/ CleanupRUnlock
    \/ CleanupDelete
    \/ CleanupUnlock

\* the server has let one request of client 1 through at time 0; the two
\* requests of LimitReqs are still to come
InitLocks ==
    /\ InitTables(GoalIds)
    /\ tx = [p \in Procs |-> IdleTx]
    /\ hist = [p \in Procs |-> IdleHist]
    /\ admin = NoAdmin
    /\ now = 0
    /\ visitors = [ip \in {1} |-> <<0>>]
    /\ admitted = [ip \in ClientIPs |-> IF ip = 1 THEN <<0>> ELSE <<>>]
    /\ reqs = [r \in LimitReqs |-> NewRequest]
    /\ locks = NoLocks
    /\ InitAuth({})

NextLocks ==
    \/ \E r \in LimitReqs : Arrive(r, RateRequests)
    \/ \E r \in LimitReqs : AllowLock(r)
    \/ \E r \in LimitReqs : AllowVisitor(r)
    \/ \E r \in LimitReqs : AllowVisitorLock(r)
    \/ \E r \in LimitReqs : AllowCheck(r)
    \/ \E r \in LimitReqs : AllowVisitorUnlock(r)
    \/ \E r \in LimitReqs : AllowUnlock(r)
    \/ CleanupLock
    \/ \E ip \in ClientIPs : CleanupRLock(ip)
    \/ CleanupRead
    \/ CleanupRUnlock
    \/ CleanupDelete
    \/ CleanupUnlock
    \/ Tick

\* every goroutine that can run does run; a goroutine that waits for rl.mutex
\* gets it in the end (sync.Mutex hands the lock to a waiter that starves)
SpecLocks ==
    /\ InitLocks
    /\ [][NextLocks]_vars
    /\ \A r \in LimitReqs : WF_vars(AllowStep(r)) /\ SF_vars(AllowLock(r))
    /\ WF_vars(CleanupStep)

\* ---------------------------------------------------------------- properties
RECURSIVE SumAmounts(_)
SumAmounts(S) ==
    IF S = {} THEN 0
    ELSE LET d == CHOOSE x \in S : TRUE IN d.Amount + SumAmounts(S \ {d})

Returned(p) == tx[p].pc = "done"
Succeeded(p) == tx[p].pc = "done" /\ tx[p].err = ErrNil
Failed(p) == tx[p].pc = "done" /\ tx[p].err /= ErrNil
Attributed(p) == tx[p].arg.UserID.Valid
NoPendingWrite(p) == tx[p].wUser = {} /\ tx[p].wGoal = {} /\ tx[p].wDonation = {}
\* the step is the successful commit of p's transaction
Commits(p) == tx[p].pc = "commit" /\ tx'[p].pc = "done" /\ tx'[p].err = ErrNil

\* C1: in every committed state each goal's collected_amount is its initial
\* collected_amount plus the sum of the amounts of the committed donation rows
\* that reference the goal.
C1_CollectedIsSumOfDonations ==
    \A g \in DOMAIN goals :
        goals[g].CollectedAmount = InitCollected + SumAmounts(DonationsOf(g))

\* two donations to one goal are committed
C1_Witness ==
    \E g \in DOMAIN goals :
        /\ Cardinality(DonationsOf(g)) = 2
        /\ goals[g].CollectedAmount > InitCollected + 1

\* C2: when two attributed donations from distinct users to the same goal run
\* concurrently and both succeed, the goal's collected_amount ends at its prior
\* value plus both amounts: no increment is lost and none is applied twice.
C2_NoLostIncrement ==
    \A p, q \in DOMAIN tx :
        (/\ p /= q
         /\ Succeeded(p) /\ Succeeded(q)
         /\ Attributed(p) /\ Attributed(q)
         /\ tx[p].arg.UserID /= tx[q].arg.UserID
         /\ tx[p].arg.GoalID = tx[q].arg.GoalID
         /\ hist[q].overlap)
        => goals[tx[q].arg.GoalID].CollectedAmount
              = hist[q].collected0 + tx[p].arg.Amount + tx[q].arg.Amount

\* both concurrent donations have returned nil, with different amounts
C2_Witness ==
    \E p, q \in DOMAIN tx :
        /\ p /= q
        /\ Succeeded(p) /\ Succeeded(q)
        /\ Attributed(p) /\ Attributed(q)
        /\ tx[p].arg.UserID /= tx[q].arg.UserID
        /\ tx[p].arg.GoalID = tx[q].arg.GoalID
        /\ hist[p].overlap
        /\ tx[p].arg.Amount = 2 /\ tx[q].arg.Amount = 1

\* C3: a successful attributed donation of amount a by user U, with no concurrent
\* writer of U's row, leaves U's stored balance at its value before the call
\* minus a.
C3_BalanceDebitedByAmount ==
    [][\A p \in DOMAIN tx :
          (Commits(p) /\ Attributed(p) /\ ~hist[p].overlap)
          => users'[tx[p].arg.UserID.Int64].Balance
                = hist[p].balance0 - tx[p].arg.Amount]_vars

\* C4: no user's stored balance is negative in any committed state, also when
\* concurrent donations of one user add up to more than the balance.
C4_BalanceNeverNegative ==
    \A u \in DOMAIN users : users[u].Balance >= 0

\* two overlapping donations of one user, together larger than the balance the
\* user had, have both committed
C4_Witness ==
    \E p, q \in DOMAIN tx :
        /\ p /= q
        /\ Succeeded(p) /\ Succeeded(q)
        /\ Attributed(p) /\ tx[p].arg.UserID = tx[q].arg.UserID
        /\ hist[q].overlap
        /\ tx[p].userBalance = tx[q].userBalance
        /\ tx[p].arg.Amount + tx[q].arg.Amount > tx[q].userBalance

\* C5: a call that returns an error has changed no committed table: goal totals,
\* user balances and donation rows are as its steps found them, and the donation
\* row it may have inserted is not in the table.
C5_FailedCallChangesNothing ==
    \A p \in DOMAIN tx :
        Failed(p) =>
            /\ ~hist[p].wrote
            /\ NoPendingWrite(p)
            /\ \A d \in donations : d.ID /= tx[p].result.Donation.ID

\* a call failed in the store after its balance debit and its donation insert
C5_Witness ==
    \E p \in DOMAIN tx :
        /\ Failed(p) /\ tx[p].err = ErrStore /\ tx[p].ended = "rollback"
        /\ tx[p].result.User.ID /= 0
        /\ tx[p].result.Donation.ID /= 0

\* C6: every committed donation row has a user reference exactly when its
\* is_anonymous flag is false.
C6_UserPresentIffNotAnonymous ==
    \A d \in donations : d.UserID.Valid <=> ~d.IsAnonymous

\* C7: a donation whose is_anonymous flag is true never changes a user's balance.
C7_AnonymousLeavesBalances ==
    [][\A p \in DOMAIN tx :
          (Commits(p) /\ tx[p].arg.IsAnonymous) => users' = users]_vars

\* C8 as stated: an attributed donation whose amount exceeds the donor's balance
\* returns the insufficient-balance error (a failing store apart), creates no row
\* and changes nothing.
C8_ExceedingAmountIsInsufficient ==
    \A p \in DOMAIN tx :
        (/\ Returned(p) /\ Attributed(p)
         /\ tx[p].arg.UserID.Int64 \in DOMAIN users
         /\ tx[p].arg.Amount > hist[p].balance0
         /\ ~hist[p].overlap
         /\ tx[p].err /= ErrStore)
        => /\ tx[p].err = ErrInsufficient
           /\ ~hist[p].wrote
           /\ tx[p].result.Donation = EmptyDonation

\* a transaction whose balance check found less than the amount goes to its
\* rollback with the insufficient-balance error
C8_CheckStep ==
    \A p \in DOMAIN tx :
        (/\ tx[p].pc = "getUser" /\ tx'[p].pc /= "getUser"
         /\ tx'[p].err /= ErrStore
         /\ tx[p].arg.UserID.Int64 \in DOMAIN users
         /\ users[tx[p].arg.UserID.Int64].Balance < tx[p].arg.Amount)
        => tx'[p].err = ErrInsufficient /\ tx'[p].pc = "rollback"

\* a transaction that is past its balance check read a balance of at least the
\* amount; one that carries the insufficient-balance error read less, has written
\* nothing and inserted no row
C8_CheckState ==
    \A p \in DOMAIN tx :
        /\ (Attributed(p) /\ (Succeeded(p) \/ tx[p].pc \in
              {"updateUserBalance", "createDonation", "updateGoalCollectedAmount",
               "getUpdatedGoal", "commit"}))
           => tx[p].userBalance >= tx[p].arg.Amount
        /\ tx[p].err = ErrInsufficient =>
              /\ tx[p].pc \in {"rollback", "done"}
              /\ tx[p].userBalance < tx[p].arg.Amount
              /\ NoPendingWrite(p)
              /\ ~hist[p].wrote
              /\ tx[p].result.Donation = EmptyDonation
              /\ tx[p].result.User = EmptyUser

\* C8 amended: an attributed donation with a positive amount to an existing,
\* active goal by an existing donor, whose balance check reads a balance smaller
\* than the amount, returns the insufficient-balance error unless the store fails,
\* creates no donation row and leaves balance and collected_amount unchanged.
C8_InsufficientBalanceRejected == []C8_CheckState /\ [][C8_CheckStep]_vars

\* a call has returned the insufficient-balance error
C8_Witness ==
    \E p \in DOMAIN tx :
        /\ Failed(p) /\ tx[p].err = ErrInsufficient /\ tx[p].ended = "rollback"
        /\ tx[p].arg.Amount > tx[p].userBalance

\* p waits for a row lock that q holds
Waits(p, q) ==
    /\ p /= q
    /\ \/ tx[p].pc = "updateUserBalance" /\ q \in UserLockedBy(tx[p].arg.UserID.Int64)
       \/ tx[p].pc = "updateGoalCollectedAmount" /\ q \in GoalLockedBy(tx[p].arg.GoalID)

NoLockCycle == \A p, q \in DOMAIN tx : ~(Waits(p, q) /\ Waits(q, p))

AllReturnedNil == \A p \in DOMAIN tx : Succeeded(p)

\* C9: under fair scheduling every call of the cross pattern over two users and
\* two goals, attributed or anonymous, eventually returns without error, and no
\* two transactions ever wait for a row lock the other holds.
C9_CrossPatternCompletes == []NoLockCycle /\ <>[]AllReturnedNil

\* a transaction holds one row lock and waits for another that an attributed
\* donation of the other user holds, on the other's goal
C9_Witness ==
    \E p, q \in DOMAIN tx :
        /\ Waits(p, q)
        /\ tx[p].wUser /= {}
        /\ tx[q].wUser /= {}
        /\ tx[p].arg.UserID /= tx[q].arg.UserID

\* C10 as stated: a donation to a goal whose is_active flag is false fails with
\* the inactive-goal error (a failing store apart) and mutates nothing.
C10_InactiveGoalIsInactiveError ==
    \A p \in DOMAIN tx :
        (/\ Returned(p)
         /\ tx[p].arg.GoalID \in DOMAIN goals
         /\ ~hist[p].sawActive
         /\ tx[p].err /= ErrStore)
        => tx[p].err = ErrInactive /\ ~hist[p].wrote

\* a transaction that reads the goal as inactive goes to its rollback with the
\* inactive-goal error
C10_CheckStep ==
    \A p \in DOMAIN tx :
        (/\ tx[p].pc = "getGoal" /\ tx'[p].pc /= "getGoal"
         /\ tx'[p].err /= ErrStore
         /\ tx[p].arg.GoalID \in DOMAIN goals
         /\ ~goals[tx[p].arg.GoalID].IsActive)
        => tx'[p].err = ErrInactive /\ tx'[p].pc = "rollback"

\* a call on a goal that was never active since the call was made does not return
\* nil and changes nothing; a transaction that carries the inactive-goal error has
\* written nothing, and one that is past the activity check read the goal active
C10_CheckState ==
    \A p \in DOMAIN tx :
        /\ (Returned(p) /\ tx[p].arg.GoalID \in DOMAIN goals /\ ~hist[p].sawActive)
           => tx[p].err \in {ErrInactive, ErrAmount, ErrStore} /\ ~hist[p].wrote
        /\ tx[p].err = ErrInactive =>
              /\ tx[p].pc \in {"rollback", "done"}
              /\ ~tx[p].goal.IsActive
              /\ tx[p].arg.Amount > 0
              /\ NoPendingWrite(p)
              /\ ~hist[p].wrote
              /\ tx[p].result = EmptyResult
        /\ (Succeeded(p) \/ tx[p].pc \in
              {"getUser", "updateUserBalance", "createDonation",
               "updateGoalCollectedAmount", "getUpdatedGoal", "commit"})
           => tx[p].goal.IsActive

\* C10 amended: a donation to a goal whose is_active flag is false always fails,
\* attributed or anonymous, and mutates nothing; when its amount is positive and
\* the store does not fail, the error is the inactive-goal error (with an amount
\* of zero or less it is the invalid-amount error).
C10_InactiveGoalRejected == []C10_CheckState /\ [][C10_CheckStep]_vars

\* an attributed and an anonymous call have both returned the inactive-goal error
C10_Witness ==
    \E p, q \in DOMAIN tx :
        /\ Failed(p) /\ tx[p].err = ErrInactive /\ Attributed(p)
        /\ Failed(q) /\ tx[q].err = ErrInactive /\ ~Attributed(q) /\ tx[q].arg.IsAnonymous
        /\ ~hist[p].sawActive /\ ~hist[q].sawActive

\* C11: a call with an amount of zero or less is rejected with the invalid-amount
\* error before any store access: its transaction is never opened, and the error
\* it returns is the invalid-amount error.
C11_RejectedBeforeStoreAccess ==
    \A p \in DOMAIN tx :
        (tx[p].pc /= "idle" /\ tx[p].arg.Amount <= 0)
        => /\ ~tx[p].opened
           /\ Returned(p) => tx[p].err = ErrAmount

\* the committed rows that carry the arguments of a call
RowsOf(arg) ==
    {d \in donations : /\ d.GoalID = arg.GoalID /\ d.UserID = arg.UserID
                       /\ d.Amount = arg.Amount /\ d.IsAnonymous = arg.IsAnonymous}

\* the commit of a successful call adds one new row that carries the call's goal
\* id, user id, amount and anonymity flag, and no other step changes the table
C12_RowStep ==
    /\ \A p \in DOMAIN tx :
          Commits(p) =>
             \E d \in donations' \ donations :
                /\ donations' = donations \cup {d}
                /\ d = tx[p].result.Donation
                /\ d \in RowsOf(tx[p].arg)'
    /\ (\A p \in DOMAIN tx : ~Commits(p)) => donations' = donations

\* there are as many rows as calls that returned nil, and the row a failed call
\* inserted is not in the table
C12_RowState ==
    /\ Cardinality(donations) = Cardinality({p \in DOMAIN tx : Succeeded(p)})
    /\ \A p \in DOMAIN tx : Failed(p) => tx[p].result.Donation \notin donations

\* two identical calls have both returned nil: there are two rows for them, the
\* goal's total has grown by the amount twice and, if they are attributed, the
\* donor's balance has dropped by the amount twice
C12_AppliedTwice ==
    \A p, q \in DOMAIN tx :
        (p /= q /\ DOMAIN tx = {p, q} /\ Succeeded(p) /\ Succeeded(q) /\ tx[p].arg = tx[q].arg)
        => /\ Cardinality(RowsOf(tx[p].arg)) = 2
           /\ goals[tx[p].arg.GoalID].CollectedAmount = InitCollected + 2 * tx[p].arg.Amount
           /\ Attributed(p) =>
                 users[tx[p].arg.UserID.Int64].Balance
                    = InitBalanceOf(tx[p].arg.UserID.Int64) - 2 * tx[p].arg.Amount

\* C12: each successful call adds exactly one donation row with the call's goal
\* id, user id, amount and anonymity flag, each failed call adds none, and two
\* identical successful calls leave two rows and apply the goal increment and,
\* if attributed, the debit twice.
C12_OneRowPerSuccess == []C12_RowState /\ [][C12_RowStep]_vars /\ []C12_AppliedTwice

\* the rows and the goal increments of C12 alone, without the debit
C12_RowsAndIncrements ==
    /\ C12_RowState
    /\ \A p, q \in DOMAIN tx :
          (p /= q /\ DOMAIN tx = {p, q} /\ Succeeded(p) /\ Succeeded(q) /\ tx[p].arg = tx[q].arg)
          => /\ Cardinality(RowsOf(tx[p].arg)) = 2
             /\ goals[tx[p].arg.GoalID].CollectedAmount
                   = InitCollected + 2 * tx[p].arg.Amount

\* C13: a committed donation row is never modified or removed: every row of the
\* table is in the table after every step, with the same goal id, user id, amount
\* and anonymity flag.
C13_RowsArePermanent == [][\A d \in donations : d \in donations']_vars

\* the deletion of a goal that has a committed donation row has been refused, and
\* a user who has no row has been deleted
C13_Witness ==
    /\ admin.op = "DeleteGoal" /\ admin.err = ErrForeignKey
    /\ DonationsOf(admin.id) /= {}
    /\ DOMAIN users /= UserIds

\* C14: across every step, the collected_amount of a goal that is active does not
\* decrease.
C14_ActiveGoalNeverDecreases ==
    [][\A g \in DOMAIN goals :
          (g \in DOMAIN goals' /\ goals[g].IsActive)
          => goals'[g].CollectedAmount >= goals[g].CollectedAmount]_vars

\* a donation to an active goal has committed, and a call with a negative amount
\* on that goal has returned
C14_Witness ==
    \E p, q \in DOMAIN tx :
        /\ Succeeded(p) /\ Returned(q)
        /\ tx[q].arg.Amount < 0
        /\ tx[q].arg.GoalID = tx[p].arg.GoalID
        /\ goals[tx[p].arg.GoalID].IsActive
        /\ goals[tx[p].arg.GoalID].CollectedAmount > InitCollected

\* C15: a successful call returns a populated User exactly when the donation is
\* not anonymous, with the id of the donation's user; for an anonymous donation
\* the returned User is the empty value.
C15_UserReturnedIffNotAnonymous ==
    \A p \in DOMAIN tx :
        Succeeded(p) =>
            /\ tx[p].result.User /= EmptyUser <=> ~tx[p].result.Donation.IsAnonymous
            /\ ~tx[p].result.Donation.IsAnonymous
                  => tx[p].result.User.ID = tx[p].result.Donation.UserID.Int64

\* what the code does: the User is populated exactly when the call carries a user
\* id, whatever its anonymity flag
C15_UserReturnedIffUserID ==
    \A p \in DOMAIN tx :
        Succeeded(p) =>
            /\ tx[p].result.User /= EmptyUser <=> tx[p].arg.UserID.Valid
            /\ tx[p].arg.UserID.Valid
                  => tx[p].result.User.ID = tx[p].result.Donation.UserID.Int64

\* the Goal a successful call returns, no other donation having committed on its
\* rows meanwhile, has the total the goal had before the call plus the amount
C16_ReturnedGoal ==
    \A p \in DOMAIN tx :
        (Succeeded(p) /\ ~hist[p].overlap)
        => tx[p].result.Goal.CollectedAmount = hist[p].collected0 + tx[p].arg.Amount

\* C16: with no concurrent donation to the same goal or by the same user, the
\* Goal a successful call returns has collected_amount equal to its value before
\* the call plus the amount, whatever that value was, and the User an attributed
\* call returns has the balance before the call minus the amount.
C16_ReturnedGoalAndUser ==
    /\ C16_ReturnedGoal
    /\ \A p \in DOMAIN tx :
          (Succeeded(p) /\ ~hist[p].overlap /\ Attributed(p))
          => tx[p].result.User.Balance = hist[p].balance0 - tx[p].arg.Amount

\* the request got past the middleware and its handler has answered
Handled(r) ==
    /\ reqs[r].pc = "done"
    /\ reqs[r].status \notin {StatusUnauthorized, StatusTooManyRequests}

\* C17: the per-type ceiling is enforced before the engine is called.  A request
\* of POST /donations with an amount above MaxRegisteredDonation, or of POST
\* /donations/anonymous with an amount above MaxAnonymousDonation, is never past
\* the limit check: its handler answers 400 and calls neither GetGoal nor
\* DonateToGoalTx.  A request with a valid body whose amount is not above the
\* ceiling is not answered 400: its handler calls GetGoal and, unless GetGoal
\* fails, DonateToGoalTx with that amount.
C17_CeilingBeforeEngine ==
    \A r \in DOMAIN reqs :
        /\ reqs[r].amount > MaxDonation(reqs[r].route)
           => /\ reqs[r].pc \notin {"getGoal", "donate"}
              /\ reqs[r].calls = <<>>
              /\ Handled(r) => reqs[r].status = StatusBadRequest
        /\ (Handled(r) /\ Binds(reqs[r]) /\ reqs[r].amount <= MaxDonation(reqs[r].route))
           => /\ reqs[r].status /= StatusBadRequest
              /\ \/ /\ reqs[r].calls = <<"GetGoal">>
                    /\ reqs[r].status \in {StatusNotFound, StatusInternalServerError}
                 \/ /\ reqs[r].calls = <<"GetGoal", "DonateToGoalTx">>
                    /\ reqs[r].arg.Amount = reqs[r].amount
                    /\ reqs[r].status \in {StatusCreated, StatusInternalServerError}

\* an anonymous donation of exactly the anonymous ceiling has been created, and a
\* registered donation of one more than the registered ceiling has been answered
C17_Witness ==
    \E r, s \in DOMAIN reqs :
        /\ Handled(r) /\ reqs[r].route = RouteAnonymous
        /\ reqs[r].amount = MaxAnonymousDonation
        /\ reqs[r].status = StatusCreated
        /\ reqs[r].calls = <<"GetGoal", "DonateToGoalTx">>
        /\ Handled(s) /\ reqs[s].route = RouteDonations
        /\ reqs[s].amount = MaxRegisteredDonation + 1
        /\ reqs[s].status = StatusBadRequest

\* the requests of a client that were admitted in the window that ends at t
AdmittedIn(ip, t) ==
    Cardinality({i \in 1 .. Len(admitted[ip]) :
                    admitted[ip][i] > t - Window /\ admitted[ip][i] <= t})

\* at most RateLimitPerMinute admissions of a client in any window, and a request
\* answered 429 has reached neither its handler nor the store
C18_RateState ==
    /\ \A ip \in ClientIPs, t \in 0 .. MaxTime + Window :
          AdmittedIn(ip, t) <= RateLimitPerMinute
    /\ \A r \in DOMAIN reqs :
          reqs[r].status = StatusTooManyRequests
          => reqs[r].pc = "done" /\ reqs[r].calls = <<>> /\ reqs[r].arg = EmptyArg

\* the limiter admits a request while fewer than RateLimitPerMinute of its client
\* were admitted in the current window, and answers 429 otherwise
C18_RateStep ==
    \A r \in DOMAIN reqs :
        (reqs[r].pc = "rateLimit" /\ reqs'[r].pc /= "rateLimit")
        => IF AdmittedIn(reqs[r].ip, now) < RateLimitPerMinute
           THEN reqs'[r].pc = "bind" /\ AdmittedIn(reqs[r].ip, now)' = AdmittedIn(reqs[r].ip, now) + 1
           ELSE reqs'[r].status = StatusTooManyRequests /\ admitted' = admitted

\* C18: for each client IP and under any interleaving of concurrent requests, at
\* most RateLimitPerMinute requests to the rate-limited routes are admitted within
\* any one-minute window: the first RateLimitPerMinute requests in a window are
\* admitted, and every further one is answered 429 and reaches neither the route
\* handler nor the store.
C18_RateLimitPerWindow == []C18_RateState /\ [][C18_RateStep]_vars

\* a request was answered 429 while two requests of its client, admitted at
\* different times, were in the window
C18_Witness ==
    \E r \in DOMAIN reqs :
        /\ reqs[r].status = StatusTooManyRequests
        /\ Len(admitted[reqs[r].ip]) = RateLimitPerMinute
        /\ admitted[reqs[r].ip][1] < admitted[reqs[r].ip][2]
        /\ admitted[reqs[r].ip][1] > now - Window
        /\ reqs[r].ip \in DOMAIN visitors

\* the refreshes with token t that were answered 200
RefreshedWith(t) ==
    {s \in DOMAIN sess : /\ sess[s].pc = "done" /\ sess[s].route = RouteRefresh
                         /\ sess[s].status = StatusOK /\ sess[s].token = t}

\* C19: a given refresh token yields a successful POST /auth/refresh at most
\* once, a second request that runs concurrently with the first included.
C19_RefreshTokenUsedOnce ==
    \A t \in Issued : Cardinality(RefreshedWith(t)) <= 1

\* a refresh that is sent after another refresh with the same token was answered
\* 200 does not succeed
C19_SequentialReuseRejected ==
    [][\A s \in DOMAIN sess :
          (sess[s].pc = "new" /\ sess'[s].pc = "verify" /\ sess'[s].route = RouteRefresh
           /\ RefreshedWith(sess'[s].token) /= {})
          => sess'[s].token \notin LiveTokens]_vars

\* C20: after POST /auth/logout has succeeded for a refresh token, and after POST
\* /auth/logout-all has succeeded for a user who had been issued the token before
\* that call, every POST /auth/refresh that is sent later with the token is
\* rejected: it does not get past GetRefreshToken, revokes and issues nothing, and
\* is not answered 200.
C20_LoggedOutTokenRejected ==
    \A s \in DOMAIN sess :
        (sess[s].route = RouteRefresh /\ sess[s].late)
        => /\ sess[s].pc \in {"verify", "getRefreshToken", "done"}
           /\ sess[s].status /= StatusOK
           /\ sess[s].newToken = 0

\* a logout of token 1 and a logout-all of its user have succeeded, and a refresh
\* sent afterwards with token 2, which only the logout-all revoked, was rejected
C20_Witness ==
    \E a, b, s \in DOMAIN sess :
        /\ sess[a].route = RouteLogout /\ sess[a].status = StatusOK /\ sess[a].token = 1
        /\ sess[b].route = RouteLogoutAll /\ sess[b].status = StatusOK
        /\ sess[s].route = RouteRefresh /\ sess[s].late /\ sess[s].token = 2
        /\ sess[s].pc = "done"
        /\ sess[s].status \in {StatusUnauthorized, StatusInternalServerError}
        /\ 2 \in DOMAIN refreshTokens /\ ~refreshTokens[2].Expired

\* C22: no donation commits against a goal that is closed: when the goal's
\* is_active flag is false at the moment a donation transaction on it commits
\* (an UpdateGoal that set it false committed before), the donation does not
\* commit successfully.
C22_NoCommitOnClosedGoal ==
    [][\A p \in DOMAIN tx : Commits(p) => goals[tx[p].arg.GoalID].IsActive]_vars

\* C23: when two attributed donations of one user with amounts a and b run
\* concurrently and both succeed, the user's balance ends at the initial balance
\* minus a minus b, and the initial balance was at least a + b.
C23_ConcurrentDebitsAddUp ==
    \A p, q \in DOMAIN tx :
        (/\ p /= q
         /\ Succeeded(p) /\ Succeeded(q)
         /\ Attributed(p) /\ tx[p].arg.UserID = tx[q].arg.UserID
         /\ hist[q].overlap)
        => LET u == tx[p].arg.UserID.Int64 IN
           /\ users[u].Balance = InitBalanceOf(u) - tx[p].arg.Amount - tx[q].arg.Amount
           /\ InitBalanceOf(u) >= tx[p].arg.Amount + tx[q].arg.Amount

\* the second half of C23 alone: both succeed only if the balance covers both
C23_BothSucceedOnlyIfCovered ==
    \A p, q \in DOMAIN tx :
        (/\ p /= q
         /\ Succeeded(p) /\ Succeeded(q)
         /\ Attributed(p) /\ tx[p].arg.UserID = tx[q].arg.UserID
         /\ hist[q].overlap)
        => InitBalanceOf(tx[p].arg.UserID.Int64) >= tx[p].arg.Amount + tx[q].arg.Amount

\* C24: a donation transaction that holds the row lock of its goal and has a
\* donor holds the row lock of the donor already, and none waits for or is yet
\* to take the donor's lock while it holds the goal's: the user row is always
\* locked before the goal row, whatever the ids.
C24_UserLockBeforeGoalLock ==
    \A p \in DOMAIN tx :
        Attributed(p) =>
            /\ tx[p].wGoal /= {} => tx[p].wUser /= {}
            /\ tx[p].pc \in {"getGoal", "getUser", "updateUserBalance"} => tx[p].wGoal = {}

\* a transaction holds both locks while another, of the other user and for the
\* same goal, holds its user's lock and waits for the goal's
C24_Witness ==
    \E p, q \in DOMAIN tx :
        /\ tx[p].wUser /= {} /\ tx[p].wGoal /= {}
        /\ tx[q].wUser /= {} /\ tx[q].wGoal = {}
        /\ tx[p].arg.UserID /= tx[q].arg.UserID
        /\ tx[q].arg.GoalID = tx[p].arg.GoalID
        /\ Waits(q, p)

\* C26: a call that returns an error returns an empty result with it: no donation,
\* goal, user or balance of the transaction that was rolled back.
C26_ErrorReturnsEmptyResult ==
    \A p \in DOMAIN tx : Failed(p) => tx[p].result = EmptyResult

\* the step is an update of a goal's collected_amount by p's transaction
WritesGoal(p) == tx[p].wGoal = {} /\ tx'[p].wGoal /= {}

\* C25: the only write of a donation transaction to a goal's collected_amount is
\* one update that adds exactly the donation amount to the stored value: the
\* value it leaves is the stored total plus the amount, whatever total the
\* transaction read before, and the transaction writes the total once.
C25_IncrementIsTheAmount ==
    [][\A p \in DOMAIN tx :
          /\ WritesGoal(p) =>
                tx'[p].wGoal = {goals[tx[p].arg.GoalID].CollectedAmount + tx[p].arg.Amount}
          /\ tx[p].wGoal /= {} => tx'[p].wGoal \in {tx[p].wGoal, {}}]_vars

\* a transaction that was begun and whose call has returned was ended; one that
\* was not begun was not ended; a call that returned nil was committed
C30_EndedState ==
    \A p \in DOMAIN tx :
        /\ (Returned(p) /\ tx[p].opened) => tx[p].ended \in {"commit", "rollback"}
        /\ ~tx[p].opened => tx[p].ended = "none"
        /\ ~Returned(p) => tx[p].ended = "none"
        /\ Succeeded(p) => tx[p].ended = "commit"

\* the transaction is ended by the step that returns from execTx and by no other:
\* with a commit when the callback returned nil (the call is at its commit), with a
\* rollback when the callback returned an error, and then the call returns that
\* error, or that error combined with the error of the rollback
C30_EndedStep ==
    \A p \in DOMAIN tx :
        /\ tx[p].ended /= "none" => tx'[p].ended = tx[p].ended
        /\ (tx[p].pc = "commit" /\ tx'[p].pc /= "commit")
           => tx'[p].ended = "commit" /\ tx'[p].pc = "done"
        /\ (tx[p].pc = "rollback" /\ tx'[p].pc /= "rollback")
           => /\ tx'[p].ended = "rollback" /\ tx'[p].pc = "done"
              /\ tx[p].err /= ErrNil
              /\ tx'[p].err \in {tx[p].err, Errorf(tx[p].err, ErrStore)}
        /\ (tx[p].ended = "none" /\ tx'[p].ended /= "none")
           => tx[p].pc \in {"commit", "rollback"}

\* C30: execTx ends every transaction it begins exactly once: with a commit if and
\* only if the callback returned nil, otherwise with a rollback, returning the
\* callback's error, combined with the rollback's error when the rollback fails
\* too; it never commits after an error of the callback and never rolls back
\* after nil.
C30_EndsOnceCommitIffNil == []C30_EndedState /\ [][C30_EndedStep]_vars

\* a call whose callback failed and whose rollback failed has returned both errors
C30_Witness ==
    \E p \in DOMAIN tx :
        /\ Returned(p) /\ tx[p].ended = "rollback"
        /\ tx[p].err = Errorf(ErrInsufficient, ErrStore)

\* the step answers refresh request s, which had read its token as valid, with an
\* error, while the token has not expired and no other request has been sent
FailsAlone(s) ==
    /\ sess[s].route = RouteRefresh
    /\ sess[s].pc /= "done" /\ sess'[s].pc = "done"
    /\ sess'[s].status /= StatusOK
    /\ sess[s].dbUserID /= 0
    /\ \A x \in DOMAIN sess \ {s} : sess[x].pc = "new"
    /\ sess[s].token \in DOMAIN refreshTokens
    /\ ~refreshTokens[sess[s].token].Expired

\* C28: a POST /auth/refresh that answers an error for a refresh token that was
\* valid when presented leaves that token valid: with no other request around and
\* the token not expired, GetRefreshToken still finds the token after the answer,
\* so a failed rotation never leaves the old token revoked without a new one.
C28_FailedRotationKeepsToken ==
    [][\A s \in DOMAIN sess : FailsAlone(s) => TokenFound(sess[s].token)']_vars

\* the step is a PUT /goals/:id that is answered 200: the request is the last one
\* and no transaction moves
UpdatesGoal ==
    /\ admin'.op = "updateGoal" /\ admin'.status = StatusOK
    /\ tx' = tx

\* C21: no step other than the commit of a donation changes the collected_amount
\* of a goal that exists before and after it or the balance of a user, and a PUT
\* /goals/:id leaves the goal's collected_amount, title and description as they
\* were, whatever its body holds.
C21_OnlyDonationsChangeTotals ==
    [][/\ (\A p \in DOMAIN tx : ~Commits(p))
          => /\ \A g \in DOMAIN goals \cap DOMAIN goals' :
                   goals'[g].CollectedAmount = goals[g].CollectedAmount
             /\ \A u \in DOMAIN users : users'[u].Balance = users[u].Balance
       /\ UpdatesGoal
          => /\ goals'[admin'.id].CollectedAmount = goals[admin'.id].CollectedAmount
             /\ goals'[admin'.id].Title = goals[admin'.id].Title
             /\ goals'[admin'.id].Description = goals[admin'.id].Description]_vars

\* after a donation to the goal, a user's change of name and a registration, a
\* PUT /goals/:id with a title, a description, a target and is_active in its body
\* has been answered 200: the target is the new one, the total and the title are
\* the old ones
C21_Witness ==
    /\ admin.op = "updateGoal" /\ admin.status = StatusOK
    /\ admin.body.Title.Valid /\ admin.body.Description.Valid
    /\ goals[admin.id].CollectedAmount > InitCollected
    /\ goals[admin.id].TargetAmount = Int8(2)
    /\ goals[admin.id].Title = InitTitle
    /\ users[1].Name = "new"
    /\ MaxUserID \in DOMAIN users

\* C27: a PUT /goals/:id whose body has no is_active leaves the stored is_active
\* flag of the goal as it was; a body with only target_amount does not close an
\* active goal.
C27_OmittedIsActiveIsKept ==
    [][(UpdatesGoal /\ ~admin'.body.IsActive.Valid)
       => goals'[admin'.id].IsActive = goals[admin'.id].IsActive]_vars

\* what the code does instead: the flag becomes the one of the body, and false
\* when the body has none
C27_OmittedIsActiveCloses ==
    [][UpdatesGoal
       => goals'[admin'.id].IsActive
             = (admin'.body.IsActive.Valid /\ admin'.body.IsActive.Bool)]_vars

\* the positions of a request inside Allow, between rl.mutex.Lock() and the
\* deferred rl.mutex.Unlock()
AllowPcs == {"allowVisitor", "allowVisitorLock", "allowCheck", "allowVisitorUnlock",
             "allowUnlock"}

\* C29, lock order: whoever holds or waits for a visitor's mutex holds rl.mutex,
\* the request as the writer, the cleanup goroutine as a reader
C29_LimiterMutexFirst ==
    /\ \A r \in DOMAIN reqs : reqs[r].pc \in AllowPcs => locks.mutex = r
    /\ locks.cleanup.pc /= "ticker" <=> locks.mutex = Cleaner
    /\ \A ip \in ClientIPs :
          /\ locks.visitor[ip].writer /= Free =>
                /\ locks.mutex = locks.visitor[ip].writer
                /\ locks.visitor[ip].readers = {}
          /\ locks.visitor[ip].readers /= {} =>
                /\ locks.visitor[ip].readers = {Cleaner}
                /\ locks.mutex = Cleaner

\* C29, reads: a goroutine that is about to read a visitor's requests holds that
\* visitor's mutex
C29_ReadUnderVisitorMutex ==
    /\ \A r \in DOMAIN reqs :
          reqs[r].pc = "allowCheck" => locks.visitor[reqs[r].ip].writer = r
    /\ locks.cleanup.pc = "read" => Cleaner \in locks.visitor[locks.cleanup.ip].readers

\* C29, writes: the requests of a visitor in the map change only in a step of the
\* request that holds the visitor's mutex as its writer
C29_WriteUnderVisitorMutex ==
    \A ip \in DOMAIN visitors \cap DOMAIN visitors' :
       visitors'[ip] /= visitors[ip] =>
          /\ locks.visitor[ip].writer \in DOMAIN reqs
          /\ reqs[locks.visitor[ip].writer].pc = "allowCheck"
          /\ reqs'[locks.visitor[ip].writer].pc = "allowVisitorUnlock"

\* C29, progress: every call of Allow returns, with 429 or into the handler, and
\* every round of the cleanup goroutine ends
C29_EveryAllowReturns ==
    /\ \A r \in LimitReqs :
          (reqs[r].pc = "rateLimit") ~> (reqs[r].pc \in {"bind", "done"})
    /\ (locks.cleanup.pc /= "ticker") ~> (locks.cleanup.pc = "ticker")

\* C29: concurrent Allow calls and the cleanup goroutine take rl.mutex before any
\* visitor's mutex, touch a visitor's requests only under that visitor's mutex,
\* and never block each other for ever: every Allow returns
C29_AllowAndCleanupNeverDeadlock ==
    /\ [](C29_LimiterMutexFirst /\ C29_ReadUnderVisitorMutex)
    /\ [][C29_WriteUnderVisitorMutex]_vars
    /\ C29_EveryAllowReturns

\* C29 witness: a request waits for rl.mutex while the cleanup goroutine holds it
\* and reads the requests of the same client under the read lock; Allow has let
\* another request of that client through, and the client is at the limit
C29_Witness ==
    \E r, q \in LimitReqs :
       /\ reqs[r].pc = "rateLimit"
       /\ reqs[q].pc = "bind"
       /\ reqs[q].ip = reqs[r].ip
       /\ Len(visitors[reqs[r].ip]) = RateLimitPerMinute
       /\ locks.mutex = Cleaner
       /\ locks.cleanup.pc = "read"
       /\ locks.cleanup.ip = reqs[r].ip
       /\ Cleaner \in locks.visitor[reqs[r].ip].readers

====
